---- MODULE Spec2Model ----
(***************************************************************************)
(* The dataset metadata resolver of EUDataTool (eu_data_tool.py): the      *)
(* file cache (lookup with TTL and corruption handling, store by           *)
(* temporary file and rename), the SPARQL client, the SPARQL fallback      *)
(* extractor, the REST-first / SPARQL-fallback resolver, and the content   *)
(* download with its cache of content file and sidecar.                    *)
(*                                                                         *)
(* Strings are TLA+ strings; TLC evaluates Len, SubSeq and \o on them, so  *)
(* file names are derived from dataset URIs character by character as the  *)
(* code derives them.  A JSON value is a tagged record (JNull, JStr,       *)
(* JList, JRows, JBool, JNum) and a JSON object is a function from key     *)
(* strings to JSON values.                                                 *)
(***************************************************************************)
EXTENDS Integers, Sequences, FiniteSets, TLC

VARIABLES
    now,            \* time.time(), in whole ticks
    fs,             \* the cache directory: file name -> file content
    server,         \* what the two remote endpoints answer at present
    cache_enabled,  \* self.cache_enabled
    calls,          \* the calls of the public operations so far, oldest first
    env,            \* how often the environment damaged a file / made a change
    wr              \* one cache store in progress, step by step (SpecStore)

vars == <<now, fs, server, cache_enabled, calls, env, wr>>

-----------------------------------------------------------------------------
(* Bounds of the model.                                                    *)

MaxTicks == 2           \* the clock runs from StartTime to StartTime + MaxTicks
MaxCalls == 2           \* calls (or stores taken step by step) in one behaviour
MaxCorrupt == 1         \* cache files damaged by the environment in one behaviour
MaxServerChanges == 1   \* changes the environment makes in one behaviour

\* self.cache_ttl of the modelled instance, in ticks
CacheTTL == 2

\* The clock's first value: time.time(), seconds since 1970, is larger than
\* any TTL in use, so that an entry taken to be written at time 0 is old.
StartTime == CacheTTL + MaxTicks

\* The catalogue data as first served, and as served after an update.
Versions == {1, 2}

-----------------------------------------------------------------------------
(* Strings.                                                                *)

Min(a, b) == IF a < b THEN a ELSE b

CharAt(s, i) == SubSeq(s, i, i)

StartsWithAt(s, i, p) ==
    /\ i + Len(p) - 1 <= Len(s)
    /\ SubSeq(s, i, i + Len(p) - 1) = p

startswith(s, p) == StartsWithAt(s, 1, p)

endswith(s, p) == Len(p) <= Len(s) /\ StartsWithAt(s, Len(s) - Len(p) + 1, p)

\* Is position i of s inside an occurrence of `old`?  The patterns the code
\* replaces ("http://", "https://" and single characters) cannot overlap
\* themselves, so every occurrence is one that str.replace replaces.
Covered(s, i, old) ==
    \E j \in (i - Len(old) + 1)..i : j >= 1 /\ StartsWithAt(s, j, old)

\* The characters lo..hi of s with every occurrence of `old` replaced by `new`
\* (by halves, so that the evaluation depth stays logarithmic).
RECURSIVE ReplaceRange(_, _, _, _, _)
ReplaceRange(s, lo, hi, old, new) ==
    IF lo > hi THEN ""
    ELSE IF lo = hi
         THEN IF StartsWithAt(s, lo, old) THEN new
              ELSE IF Covered(s, lo, old) THEN ""
              ELSE CharAt(s, lo)
         ELSE LET mid == (lo + hi) \div 2
              IN  ReplaceRange(s, lo, mid, old, new)
                     \o ReplaceRange(s, mid + 1, hi, old, new)

\* str.replace(old, new)
replace(s, old, new) == ReplaceRange(s, 1, Len(s), old, new)

\* "".join(c for c in s[lo..hi] if c in keep)
RECURSIVE FilterRange(_, _, _, _)
FilterRange(s, lo, hi, keep) ==
    IF lo > hi THEN ""
    ELSE IF lo = hi
         THEN IF CharAt(s, lo) \in keep THEN CharAt(s, lo) ELSE ""
         ELSE LET mid == (lo + hi) \div 2
              IN  FilterRange(s, lo, mid, keep) \o FilterRange(s, mid + 1, hi, keep)

Digits == {"0", "1", "2", "3", "4", "5", "6", "7", "8", "9"}
HexLetters == {"a", "b", "c", "d", "e", "f", "A", "B", "C", "D", "E", "F"}
Letters ==
    {"a", "b", "c", "d", "e", "f", "g", "h", "i", "j", "k", "l", "m", "n",
     "o", "p", "q", "r", "s", "t", "u", "v", "w", "x", "y", "z",
     "A", "B", "C", "D", "E", "F", "G", "H", "I", "J", "K", "L", "M", "N",
     "O", "P", "Q", "R", "S", "T", "U", "V", "W", "X", "Y", "Z"}

\* str.isalnum() on the characters the modelled URIs are made of (ASCII).
isalnum(c) == c \in Letters \cup Digits

LowerLetters == "abcdefghijklmnopqrstuvwxyz"
UpperLetters == "ABCDEFGHIJKLMNOPQRSTUVWXYZ"

\* The character of `to` at the place c has in `from`; c when it has none.
MapChar(c, from, to) ==
    LET at == {i \in 1..Len(from) : CharAt(from, i) = c}
    IN  IF at = {} THEN c ELSE CharAt(to, CHOOSE i \in at : TRUE)

RECURSIVE MapRange(_, _, _, _, _)
MapRange(s, lo, hi, from, to) ==
    IF lo > hi THEN ""
    ELSE IF lo = hi THEN MapChar(CharAt(s, lo), from, to)
    ELSE LET mid == (lo + hi) \div 2
         IN  MapRange(s, lo, mid, from, to) \o MapRange(s, mid + 1, hi, from, to)

\* str.upper() and str.lower() (ASCII)
upper(s) == MapRange(s, 1, Len(s), LowerLetters, UpperLetters)
lower(s) == MapRange(s, 1, Len(s), UpperLetters, LowerLetters)

\* sub in s
Contains(s, sub) == \E i \in 1..(Len(s) + 1) : StartsWithAt(s, i, sub)

\* s.split(sep) for a separator of one character: the set of the parts,
\* the first part and the last part.
SepPositions(s, sep) == {i \in 1..Len(s) : CharAt(s, i) = sep}
SplitParts(s, sep) ==
    LET cuts == SepPositions(s, sep) \cup {0, Len(s) + 1}
    IN  {SubSeq(s, a + 1, b - 1) :
            <<a, b>> \in {c \in cuts \X cuts :
                            c[1] < c[2] /\ ~\E x \in cuts : c[1] < x /\ x < c[2]}}
FirstPart(s, sep) ==
    LET at == SepPositions(s, sep)
    IN  IF at = {} THEN s
        ELSE SubSeq(s, 1, (CHOOSE i \in at : \A j \in at : i <= j) - 1)
LastPart(s, sep) ==
    LET at == SepPositions(s, sep)
    IN  IF at = {} THEN s
        ELSE SubSeq(s, (CHOOSE i \in at : \A j \in at : i >= j) + 1, Len(s))

FILENAME_LIMIT == 150

\* EUDataTool._sanitize_filename
_sanitize_filename(uri_or_key) ==
    LET r1 == replace(uri_or_key, "http://", "")
        r2 == replace(r1, "https://", "")
        r3 == replace(r2, "/", "_")
        r4 == replace(r3, ":", "_")
        r5 == replace(r4, "?", "_")
        r6 == replace(r5, "&", "_")
        r7 == replace(r6, "=", "_")
        sanitized == FilterRange(r7, 1, Len(r7), Letters \cup Digits \cup {"_", "-", "."})
    IN  SubSeq(sanitized, 1, Min(Len(sanitized), FILENAME_LIMIT))

IsHex(c) == c \in Digits \cup HexLetters

\* [0-9a-fA-F]{8}-[0-9a-fA-F]{4}-[0-9a-fA-F]{4}-[0-9a-fA-F]{4}-[0-9a-fA-F]{12} at i
UuidAt(s, i) ==
    /\ i + 35 <= Len(s)
    /\ \A k \in 0..35 :
          IF k \in {8, 13, 18, 23}
          THEN CharAt(s, i + k) = "-"
          ELSE IsHex(CharAt(s, i + k))

NoUuid == ""

\* The first position after `pre` at which `pre` is followed by a UUID and,
\* when `closed`, the UUID is followed by "/" or the end of the string; 0 when
\* there is none.
SearchUuid(s, pre, closed) ==
    LET at == {i \in 1..Len(s) :
                  /\ StartsWithAt(s, i, pre)
                  /\ UuidAt(s, i + Len(pre))
                  /\ closed =>
                        \/ i + Len(pre) + 36 > Len(s)
                        \/ CharAt(s, i + Len(pre) + 36) = "/"}
    IN  IF at = {} THEN 0
        ELSE (CHOOSE i \in at : \A j \in at : i <= j) + Len(pre)

\* EUDataTool._extract_uuid_from_uri: re.search takes the leftmost match of
\* /(?:datasets|dataset|set/data)/UUID, and /set/UUID(/|$) only when that fails.
_extract_uuid_from_uri(dataset_uri) ==
    LET hits == {SearchUuid(dataset_uri, p, FALSE) :
                     p \in {"/datasets/", "/dataset/", "/set/data/"}} \ {0}
        first == CHOOSE h \in hits : \A g \in hits : h <= g
        second == SearchUuid(dataset_uri, "/set/", TRUE)
    IN  IF hits # {} THEN SubSeq(dataset_uri, first, first + 35)
        ELSE IF second # 0 THEN SubSeq(dataset_uri, second, second + 35)
        ELSE NoUuid

-----------------------------------------------------------------------------
(* The inputs: dataset URIs and locales.                                   *)

UriRest == "https://data.europa.eu/data/datasets/0a1b2c3d-aaaa-bbbb-cccc-0123456789ab"
UriPlain == "http://data.europa.eu/88u/dataset/air-quality"

DatasetURIs == {UriRest, UriPlain}
Locales == {"en", "fr"}

\* A dataset the REST API serves, which has no distribution; KnownURIs are
\* the datasets of the catalogue.
UriBare == "https://data.europa.eu/data/datasets/0f0e0d0c-1111-2222-3333-0123456789ab"
KnownURIs == DatasetURIs \cup {UriBare}

UuidOf == [u \in KnownURIs |-> _extract_uuid_from_uri(u)]
SanitizedOf == [u \in KnownURIs |-> _sanitize_filename(u)]
MetaKeyBaseOf == [u \in KnownURIs |-> _sanitize_filename("metadata_" \o u)]

\* The keys of `queries` in _get_metadata_from_sparql_fallback, in order,
\* and those whose is_multi flag is True.
QueryNames ==
    <<"title", "description", "publisherName", "publisherUri", "modified",
      "issued", "keywords", "themes", "languages", "licenses">>
MultiValued == {"keywords", "themes", "languages", "licenses"}

SeqRange(q) == {q[i] : i \in 1..Len(q)}
SubQueryNames == SeqRange(QueryNames) \cup {"distributions"}

\* The text of the query the fallback sends for a property, and for the
\* distributions: the SELECT built around the dataset URI.
PropQueryText(sparql_uri, prop_name) ==
    "SELECT ?value WHERE { BIND(<" \o sparql_uri \o "> AS ?dataset) . ?dataset "
        \o prop_name \o " }"
DistQueryText(sparql_uri) ==
    "SELECT DISTINCT ?dist WHERE { <" \o sparql_uri \o "> dcat:distribution ?dist }"

QueryTextOf ==
    [u \in KnownURIs, n \in SubQueryNames |->
        IF n = "distributions" THEN DistQueryText(u) ELSE PropQueryText(u, n)]

HexDigits == <<"0", "1", "2", "3", "4", "5", "6", "7", "8", "9",
               "a", "b", "c", "d", "e", "f">>

\* hashlib.md5(query.encode("utf-8")).hexdigest(): a string of hexadecimal
\* digits, a different one for each query text the model sends.
Md5Of ==
    LET uris == CHOOSE q \in [1..Cardinality(KnownURIs) -> KnownURIs] :
                    \A u \in KnownURIs : \E i \in DOMAIN q : q[i] = u
        names == QueryNames \o <<"distributions">>
    IN  [text \in {QueryTextOf[u, n] : u \in KnownURIs, n \in SubQueryNames} |->
            LET i == CHOOSE i \in DOMAIN uris :
                        \E n \in SubQueryNames : QueryTextOf[uris[i], n] = text
                j == CHOOSE j \in DOMAIN names : QueryTextOf[uris[i], names[j]] = text
            IN  "d41d8cd9" \o HexDigits[i + 1] \o HexDigits[j + 1]]

\* The keywords searched for; a search is otherwise made with the defaults
\* of search_datasets (sort by date, descending, limit 10, offset 0).
SearchKeywords == {"air", "ozone", "soil"}

\* Lines 220-227: the keyword as it is put into the REGEX filter.
KeywordPattern(keyword) ==
    replace(replace(replace(replace(replace(keyword, "\\", "\\\\"), "'", "\\'"),
                            "\"", "\\\""), "^", "\\^"), "$", "\\$")

\* Lines 204-306: initial_query for a keyword.
SearchQueryText(keyword) ==
    "SELECT ?dataset ?title ?keywords ?publisher ?modified WHERE { ?dataset a dcat:Dataset . "
        \o "?dataset dcat:keyword ?kw . FILTER REGEX(STR(?kw), \"" \o KeywordPattern(keyword)
        \o "\", \"i\") } GROUP BY ?dataset ?title ORDER BY DESC(MAX(?mod)) LIMIT 10 OFFSET 0"

\* Line 340: " ".join(f"<{uri}>" for uri in chunk_uris if uri)
RECURSIVE UriValues(_)
UriValues(chunk_uris) ==
    IF chunk_uris = <<>> THEN ""
    ELSE IF Head(chunk_uris) = "" THEN UriValues(Tail(chunk_uris))
    ELSE IF UriValues(Tail(chunk_uris)) = "" THEN "<" \o Head(chunk_uris) \o ">"
    ELSE "<" \o Head(chunk_uris) \o "> " \o UriValues(Tail(chunk_uris))

\* Lines 344-357: dist_query for the datasets of one chunk.
DistChunkQueryText(uri_values) ==
    "SELECT ?dataset ?dist ?format ?downloadURL ?accessURL ?mediaType ?byteSize WHERE { "
        \o "VALUES ?dataset { " \o uri_values \o " } ?dataset dcat:distribution ?dist } LIMIT 1000"

\* The query texts a search sends: for each keyword, and for each list of
\* datasets a search finds.
SearchTexts ==
    <<SearchQueryText("air"), SearchQueryText("ozone"), SearchQueryText("soil"),
      DistChunkQueryText(UriValues(<<UriRest, UriPlain>>)),
      DistChunkQueryText(UriValues(<<UriRest>>))>>

\* The digest of a query text of a search, different for each of them and
\* from those of the fallback's queries.
SearchMd5Of ==
    [text \in {SearchTexts[i] : i \in DOMAIN SearchTexts} |->
        "d41d8cd95" \o HexDigits[CHOOSE i \in DOMAIN SearchTexts : SearchTexts[i] = text]]

md5_hexdigest(query) ==
    IF query \in DOMAIN Md5Of THEN Md5Of[query] ELSE SearchMd5Of[query]

Sanitized(uri_or_key) ==
    IF uri_or_key \in DOMAIN SanitizedOf THEN SanitizedOf[uri_or_key]
    ELSE _sanitize_filename(uri_or_key)

-----------------------------------------------------------------------------
(* JSON values and Python dictionaries.                                    *)

JNull == [t |-> "null"]
JStr(s) == [t |-> "str", s |-> s]
JList(l) == [t |-> "list", l |-> l]
JRows(l) == [t |-> "rows", l |-> l]
JBool(b) == [t |-> "bool", b |-> b]
JNum(n) == [t |-> "num", n |-> n]
JDict(d) == [t |-> "dict", d |-> d]
JBytes(s) == [t |-> "bytes", s |-> s]

EmptyDict == [k \in {} |-> JNull]

\* d[k] = v
Put(d, k, v) == [x \in DOMAIN d \cup {k} |-> IF x = k THEN v ELSE d[x]]

\* d.pop(k, None) as far as the dictionary goes
Drop(d, k) == [x \in DOMAIN d \ {k} |-> d[x]]

\* d.get(k): None when the key is absent
Get(d, k) == IF k \in DOMAIN d THEN d[k] ELSE JNull

\* bool(v)
Truthy(v) ==
    CASE v.t = "null" -> FALSE
      [] v.t = "str" -> v.s # ""
      [] v.t = "list" -> v.l # <<>>
      [] v.t = "rows" -> v.l # <<>>
      [] v.t = "bool" -> v.b
      [] v.t = "num" -> v.n # 0
      [] v.t = "dict" -> DOMAIN v.d # {}

\* {k: v for k, v in d.items() if not k.startswith("_")}
StripInternal(d) == [k \in {x \in DOMAIN d : ~startswith(x, "_")} |-> d[k]]

-----------------------------------------------------------------------------
(* The cache directory.  A file is [kind, tsk, ts, data]:                  *)
(*   kind "object"      the text parses as a JSON object `data`, whose     *)
(*                      "_cache_timestamp" is the number ts (tsk "num"),   *)
(*                      is missing (tsk "missing") or is no number ("bad") *)
(*   kind "not_object"  the text parses as JSON that is no object          *)
(*   kind "garbage"     the text does not parse (or does not decode)       *)
(*   kind "partial"     a temporary file opened for writing, not yet whole *)

Entry(data, ts) == [kind |-> "object", tsk |-> "num", ts |-> ts, data |-> data]
Damaged(kind, tsk) == [kind |-> kind, tsk |-> tsk, ts |-> 0, data |-> EmptyDict]

DamageKinds ==
    {Damaged("garbage", "missing"), Damaged("not_object", "missing"),
     Damaged("object", "missing"), Damaged("object", "bad")}

\* os.remove(path) / os.unlink(path)
Remove(files, path) == [x \in DOMAIN files \ {path} |-> files[x]]

\* open(temp_file, "w"): the file exists and is empty
OpenForWrite(files, temp_file) ==
    [x \in DOMAIN files \cup {temp_file} |->
        IF x = temp_file THEN Damaged("partial", "missing") ELSE files[x]]

\* json.dump(obj, f) and the close of the with block: the text is whole
DumpAndClose(files, temp_file, entry) == [files EXCEPT ![temp_file] = entry]

\* os.replace(temp_file, path)
OsReplace(files, temp_file, path) ==
    [x \in (DOMAIN files \ {temp_file}) \cup {path} |->
        IF x = path THEN files[temp_file] ELSE files[x]]

\* A call in progress: the directory, the clock it reads, the instance's
\* cache switch and the log of what the call has done so far.
Event(ev, what) == [ev |-> ev, what |-> what]
Log(st, ev, what) == [st EXCEPT !.log = Append(@, Event(ev, what))]

RemoveLogged(st, path) ==
    Log([st EXCEPT !.fs = Remove(@, path)], "remove", path)

\* Variants of the cache lookup defined below them, each with one defect.
\* A lookup that returns an entry whatever its age.
CacheLookupNoTTL(st, path, force_refresh) ==
    IF ~(st.enabled /\ ~force_refresh /\ path \in DOMAIN st.fs)
    THEN [st |-> st, status |-> "skip", data |-> EmptyDict]
    ELSE LET f == st.fs[path]
             st1 == Log(st, "read", path)
             cache_time == IF f.tsk = "num" THEN f.ts ELSE 0
         IN  IF f.kind \in {"garbage", "partial"}
             THEN [st |-> RemoveLogged(st1, path), status |-> "corrupt",
                   data |-> EmptyDict]
             ELSE IF f.kind = "not_object" \/ f.tsk = "bad"
             THEN [st |-> st1, status |-> "raise", data |-> EmptyDict]
             ELSE [st |-> Log(st1, "hit", path), status |-> "hit", data |-> StripInternal(f.data)]

\* A lookup that returns the entry as stored, "_cache_timestamp" included.
CacheLookupKeepsTimestamp(st, path, force_refresh) ==
    IF ~(st.enabled /\ ~force_refresh /\ path \in DOMAIN st.fs)
    THEN [st |-> st, status |-> "skip", data |-> EmptyDict]
    ELSE LET f == st.fs[path]
             st1 == Log(st, "read", path)
             cache_time == IF f.tsk = "num" THEN f.ts ELSE 0
         IN  IF f.kind \in {"garbage", "partial"}
             THEN [st |-> RemoveLogged(st1, path), status |-> "corrupt",
                   data |-> EmptyDict]
             ELSE IF f.kind = "not_object" \/ f.tsk = "bad"
             THEN [st |-> st1, status |-> "raise", data |-> EmptyDict]
             ELSE IF st.now - cache_time < CacheTTL
             THEN [st |-> Log(st1, "hit", path), status |-> "hit",
                   data |-> Put(f.data, "_cache_timestamp", JStr(ToString(f.ts)))]
             ELSE [st |-> st1, status |-> "expired", data |-> EmptyDict]

\* A lookup with the comparison of age and TTL the wrong way round.
CacheLookupInverted(st, path, force_refresh) ==
    IF ~(st.enabled /\ ~force_refresh /\ path \in DOMAIN st.fs)
    THEN [st |-> st, status |-> "skip", data |-> EmptyDict]
    ELSE LET f == st.fs[path]
             st1 == Log(st, "read", path)
             cache_time == IF f.tsk = "num" THEN f.ts ELSE 0
         IN  IF f.kind \in {"garbage", "partial"}
             THEN [st |-> RemoveLogged(st1, path), status |-> "corrupt",
                   data |-> EmptyDict]
             ELSE IF f.kind = "not_object" \/ f.tsk = "bad"
             THEN [st |-> st1, status |-> "raise", data |-> EmptyDict]
             ELSE IF st.now - cache_time >= CacheTTL
             THEN [st |-> Log(st1, "hit", path), status |-> "hit", data |-> StripInternal(f.data)]
             ELSE [st |-> st1, status |-> "expired", data |-> EmptyDict]

\* A lookup that deletes the entry it finds expired.
CacheLookupRemovesExpired(st, path, force_refresh) ==
    IF ~(st.enabled /\ ~force_refresh /\ path \in DOMAIN st.fs)
    THEN [st |-> st, status |-> "skip", data |-> EmptyDict]
    ELSE LET f == st.fs[path]
             st1 == Log(st, "read", path)
             cache_time == IF f.tsk = "num" THEN f.ts ELSE 0
         IN  IF f.kind \in {"garbage", "partial"}
             THEN [st |-> RemoveLogged(st1, path), status |-> "corrupt",
                   data |-> EmptyDict]
             ELSE IF f.kind = "not_object" \/ f.tsk = "bad"
             THEN [st |-> st1, status |-> "raise", data |-> EmptyDict]
             ELSE IF st.now - cache_time < CacheTTL
             THEN [st |-> Log(st1, "hit", path), status |-> "hit", data |-> StripInternal(f.data)]
             ELSE [st |-> RemoveLogged(st1, path), status |-> "expired",
                   data |-> EmptyDict]

\* The cache lookup that opens _execute_sparql_query and both strategies of
\* get_dataset_metadata (lines 96-120, 524-547 and 571-600 are the same code).
\* status: "skip"    no lookup (cache off, force_refresh or no such file)
\*         "hit"     fresh entry, returned without its "_" keys (the only
\*                   outcome the log records, as the event "hit")
\*         "expired" entry left in place
\*         "corrupt" JSONDecodeError/IOError/UnicodeDecodeError: file removed
\*         "raise"   an exception the except clause does not name
CacheLookup(st, path, force_refresh) ==
    IF ~(st.enabled /\ ~force_refresh /\ path \in DOMAIN st.fs)
    THEN [st |-> st, status |-> "skip", data |-> EmptyDict]
    ELSE LET f == st.fs[path]
             st1 == Log(st, "read", path)
         IN  IF f.kind \in {"garbage", "partial"}
             THEN \* json.load raises JSONDecodeError: os.remove(cache_path)
                  [st |-> RemoveLogged(st1, path), status |-> "corrupt",
                   data |-> EmptyDict]
             ELSE IF f.kind = "not_object"
             THEN \* cached_data.get: AttributeError, not caught here
                  [st |-> st1, status |-> "raise", data |-> EmptyDict]
             ELSE IF f.tsk = "bad"
             THEN \* time.time() - cache_time: TypeError, not caught here
                  [st |-> st1, status |-> "raise", data |-> EmptyDict]
             ELSE LET cache_time == IF f.tsk = "num" THEN f.ts ELSE 0
                  IN  IF st.now - cache_time < CacheTTL
                      THEN [st |-> Log(st1, "hit", path), status |-> "hit",
                            data |-> StripInternal(f.data)]
                      ELSE [st |-> st1, status |-> "expired", data |-> EmptyDict]

\* A store that writes at the path of the entry itself.
TempFileInPlace(path) == path

\* temp_file = cache_path + ".tmp": where a store writes
TempFile(path) == path \o ".tmp"

\* The store that closes _execute_sparql_query and get_dataset_metadata:
\* the copy of the payload with "_cache_timestamp" = time.time() goes to
\* the temporary file, which os.replace then moves to path.
CacheStore(st, path, data) ==
    IF ~st.enabled THEN st
    ELSE LET temp_file == TempFile(path)
             f1 == OpenForWrite(st.fs, temp_file)
             f2 == DumpAndClose(f1, temp_file, Entry(data, st.now))
             f3 == OsReplace(f2, temp_file, path)
         IN  Log([st EXCEPT !.fs = f3], "store", path)

-----------------------------------------------------------------------------
(* The remote endpoints.  `server` is [rest, sparql, ver]:                 *)
(*   rest    "ok" or "down": what a GET on the REST API does               *)
(*   sparql  "up", "down", "dist_down" (the distribution query fails) or   *)
(*           "props_down" (the ten property queries fail); and, in the     *)
(*           behaviours of the public operations, "garbled" (the body of   *)
(*           every answer is the JSON text of an empty list)               *)
(*   ver     the version of the catalogue data being served                *)

RestModes == {"ok", "down"}
SparqlModes == {"up", "down", "dist_down", "props_down"}
ServerStates == [rest : RestModes, sparql : SparqlModes, ver : Versions]

Row1(var, value) == [v \in {var} |-> value]

ModifiedOf(ver) == "2024-01-0" \o ToString(ver)

\* The rows the SPARQL endpoint returns for a sub-query of the fallback.
Bindings(uri, name, ver) ==
    CASE name = "title" -> <<Row1("value", "Air quality")>>
      [] name = "publisherName" ->
            IF uri = UriPlain THEN <<Row1("value", "EEA")>> ELSE <<>>
      [] name = "publisherUri" -> <<Row1("value", "http://pub.example/eea")>>
      [] name = "modified" -> <<Row1("value", ModifiedOf(ver))>>
      [] name = "keywords" ->
            <<Row1("value", "air"), Row1("value", ""), Row1("value", "ozone")>>
      [] name = "distributions" ->
            IF uri # UriRest THEN <<>>
            ELSE <<[dist |-> "http://dist.example/1",
                    downloadURL |-> "http://files.example/air.csv",
                    format_str |-> ""],
                   [dist |-> "http://dist.example/1",
                    accessURL |-> "http://files.example/air"]>>
      [] OTHER -> <<>>

\* What requests.get on the SPARQL endpoint comes to for one sub-query:
\* "ok" with the parsed body, or "http_error" (raise_for_status raises).
SparqlAnswer(srv, uri, name) ==
    LET failing ==
            \/ srv.sparql = "down"
            \/ srv.sparql = "dist_down" /\ name = "distributions"
            \/ srv.sparql = "props_down" /\ name # "distributions"
    IN  IF srv.sparql = "garbled"
        THEN [status |-> "not_object", body |-> JList(<<>>)]
        ELSE IF failing
        THEN [status |-> "http_error", body |-> EmptyDict]
        ELSE [status |-> "ok",
              body |-> [k \in {"results"} |-> JRows(Bindings(uri, name, srv.ver))]]

-----------------------------------------------------------------------------
(* The SPARQL client.                                                      *)

\* Line 92: the file of a query's cache entry.
QueryCachePath(query, cache_key_suffix) ==
    "sparql_" \o md5_hexdigest(query) \o "_" \o cache_key_suffix \o ".json"

\* What requests.get, raise_for_status and response.json (lines 126-133)
\* can come to for a query: a JSON object ("ok"), no response at all
\* ("transport"), a status that is not 2xx ("http_error"), a body that is not
\* JSON ("bad_json"), and a body that is JSON but no object ("not_object").
QueryAnswers ==
    {[status |-> "ok",
      body |-> [k \in {"results"} |-> JRows(<<Row1("value", "Air quality")>>)]],
     [status |-> "transport", body |-> EmptyDict],
     [status |-> "http_error", body |-> EmptyDict],
     [status |-> "bad_json", body |-> EmptyDict],
     [status |-> "not_object", body |-> JList(<<>>)]}

\* Lines 122-179: what follows the cache lookup lk of _execute_sparql_query:
\* the cached response on a hit, and otherwise the request, whose answer is
\* stored when it is a response and turned into an error record when not.
QueryAfterLookup(lk, cache_path, cache_key_suffix, answer) ==
    IF lk.status = "raise"
    THEN [st |-> lk.st, raised |-> TRUE, resp |-> EmptyDict]
    ELSE IF lk.status = "hit"
    THEN [st |-> lk.st, raised |-> FALSE, resp |-> lk.data]
    ELSE IF answer.status = "ok"
    THEN [st |-> CacheStore(Log(lk.st, "net", "sparql " \o cache_key_suffix),
                            cache_path, answer.body),
          raised |-> FALSE, resp |-> answer.body]
    ELSE IF answer.status = "not_object"
    THEN \* lines 137-140: results.copy() or the assignment of the timestamp
         \* raises AttributeError or TypeError, which no clause catches; with
         \* the cache off the body is returned as it is
         [st |-> Log(lk.st, "net", "sparql " \o cache_key_suffix),
          raised |-> lk.st.enabled,
          resp |-> IF lk.st.enabled THEN EmptyDict ELSE answer.body]
    ELSE IF answer.status = "bad_json"
    THEN [st |-> Log(lk.st, "net", "sparql " \o cache_key_suffix),
          raised |-> FALSE,
          resp |-> Put(Put(EmptyDict, "results", JRows(<<>>)), "error",
                       JStr("Failed to decode SPARQL JSON response ("
                                \o cache_key_suffix \o "): " \o answer.status))]
    ELSE [st |-> Log(lk.st, "net", "sparql " \o cache_key_suffix),
          raised |-> FALSE,
          resp |-> Put(Put(EmptyDict, "results", JRows(<<>>)), "error",
                       JStr("SPARQL query failed (" \o cache_key_suffix
                                \o "): " \o answer.status))]

\* A SPARQL client that looks into its cache even when told to refresh.
_execute_sparql_query_ignores_force(st, query, force_refresh, cache_key_suffix, answer) ==
    QueryAfterLookup(CacheLookup(st, QueryCachePath(query, cache_key_suffix), FALSE),
                     QueryCachePath(query, cache_key_suffix), cache_key_suffix, answer)

\* EUDataTool._execute_sparql_query.  `answer` is what the network call of
\* this invocation would come to; the result is [st, raised, resp].
_execute_sparql_query(st, query, force_refresh, cache_key_suffix, answer) ==
    QueryAfterLookup(CacheLookup(st, QueryCachePath(query, cache_key_suffix),
                                 force_refresh),
                     QueryCachePath(query, cache_key_suffix), cache_key_suffix, answer)

-----------------------------------------------------------------------------
(* The SPARQL fallback extractor.                                          *)

RowGet(row, var) == IF var \in DOMAIN row THEN row[var] ELSE ""

RECURSIVE SelectSeq2(_, _)
\* [x for x in q if keep(x)] with keep = "is a non-empty string"
SelectSeq2(q, i) ==
    IF i > Len(q) THEN <<>>
    ELSE (IF q[i] # "" THEN <<q[i]>> ELSE <<>>) \o SelectSeq2(q, i + 1)

RECURSIVE Join(_, _)
\* sep.join(q)
Join(q, sep) ==
    IF q = <<>> THEN ""
    ELSE IF Len(q) = 1 THEN q[1]
    ELSE q[1] \o sep \o Join(Tail(q), sep)

\* response["results"].get("bindings", []) when the response has the
\* expected structure, [] otherwise
BindingsOf(response) ==
    IF "results" \in DOMAIN response /\ response["results"].t = "rows"
    THEN response["results"].l
    ELSE <<>>

\* Lines 1082-1113: what one turn of the loop over `queries` does with the
\* answer r to its query.  acc is [st, raised, metadata, combined_errors].
PropertyResult(acc, prop_name, r) ==
    LET response == r.resp
        bindings == BindingsOf(response)
        error_msg == "Failed to fetch SPARQL property '" \o prop_name \o "': "
                        \o response["error"].s
    IN  IF r.raised THEN [acc EXCEPT !.st = r.st, !.raised = TRUE]
        ELSE IF "error" \in DOMAIN response
        THEN [acc EXCEPT !.st = r.st,
                         !.combined_errors = Append(@, error_msg),
                         !.metadata = Put(@, "error_" \o prop_name, JStr(error_msg))]
        ELSE IF bindings # <<>>
        THEN IF prop_name \in MultiValued
             THEN [acc EXCEPT !.st = r.st,
                              !.metadata = Put(@, prop_name,
                                  JList(SelectSeq2([i \in DOMAIN bindings |->
                                            RowGet(bindings[i], "value")], 1)))]
             ELSE IF "value" \in DOMAIN bindings[1]
             THEN [acc EXCEPT !.st = r.st,
                              !.metadata = Put(@, prop_name,
                                               JStr(bindings[1]["value"]))]
             ELSE [acc EXCEPT !.st = r.st]
        ELSE [acc EXCEPT !.st = r.st]

\* One turn of the loop over `queries` (lines 1051-1113).
PropertyStep(acc, prop_name, sparql_uri, force_refresh, srv) ==
    PropertyResult(acc, prop_name,
        _execute_sparql_query(acc.st, QueryTextOf[sparql_uri, prop_name],
                              force_refresh,
                              "sparql_prop_" \o Sanitized(sparql_uri) \o "_" \o prop_name,
                              SparqlAnswer(srv, sparql_uri, prop_name)))

RECURSIVE PropertyLoop(_, _, _, _, _)
PropertyLoop(acc, i, sparql_uri, force_refresh, srv) ==
    IF i > Len(QueryNames) \/ acc.raised THEN acc
    ELSE PropertyLoop(PropertyStep(acc, QueryNames[i], sparql_uri, force_refresh, srv),
                      i + 1, sparql_uri, force_refresh, srv)

\* Lines 1115-1123: the publisher name, or the publisher URI when there is
\* no name.
PublisherStep(metadata) ==
    LET name == Get(metadata, "publisherName")
        m1 == Put(Drop(metadata, "publisherName"), "publisher",
                  IF Truthy(name) THEN name ELSE Get(metadata, "publisher"))
    IN  IF ~Truthy(Get(m1, "publisher")) /\ Truthy(Get(m1, "publisherUri"))
        THEN Put(Drop(m1, "publisherUri"), "publisher_uri", m1["publisherUri"])
        ELSE Drop(m1, "publisherUri")

\* Lines 1170-1184: one row of the distribution query as a distribution,
\* without its empty values.
CleanedDist(row) ==
    LET dist_data == [k \in {"uri", "downloadURL", "accessURL", "title", "format",
                             "mediaType", "byteSize"} |->
                         RowGet(row, CASE k = "uri" -> "dist"
                                       [] k = "title" -> "distTitle"
                                       [] k = "format" -> "format_str"
                                       [] OTHER -> k)]
    IN  [k \in {x \in DOMAIN dist_data : dist_data[x] # ""} |-> JStr(dist_data[k])]

RECURSIVE ProcessDistRows(_, _, _, _)
\* Lines 1165-1192: the distributions of the rows from i on.
ProcessDistRows(rows, i, processed_dist_uris, out) ==
    IF i > Len(rows) THEN out
    ELSE LET dist_uri == RowGet(rows[i], "dist")
             cleaned_dist == CleanedDist(rows[i])
         IN  IF dist_uri # "" /\ dist_uri \notin processed_dist_uris
             THEN IF \E k \in {"uri", "downloadURL", "accessURL"} : k \in DOMAIN cleaned_dist
                  THEN ProcessDistRows(rows, i + 1, processed_dist_uris \cup {dist_uri},
                                       Append(out, cleaned_dist))
                  ELSE ProcessDistRows(rows, i + 1, processed_dist_uris, out)
             ELSE ProcessDistRows(rows, i + 1, processed_dist_uris, out)

\* Lines 1194-1196: was any key of `queries`, or "publisher", set?
CoreDataFound(metadata) ==
    \E k \in SeqRange(QueryNames) \cup {"publisher"} : k \in DOMAIN metadata

\* A fallback extractor that gives up when any of its sub-queries failed.
FallbackAllOrNothing(m1, errors, sparql_uri, d) ==
    IF d.raised THEN [st |-> d.st, raised |-> TRUE, result |-> EmptyDict]
    ELSE IF errors # <<>> \/ "error" \in DOMAIN d.resp
    THEN [st |-> d.st, raised |-> FALSE,
          result |-> Put(EmptyDict, "error",
                         JStr("SPARQL fallback failed for " \o sparql_uri))]
    ELSE [st |-> d.st, raised |-> FALSE,
          result |-> Put(m1, "distributions",
                         JList(ProcessDistRows(BindingsOf(d.resp), 1, {}, <<>>)))]

\* Lines 1147-1213: what the fallback does with the answer d to the
\* distribution query, m1 being the metadata after the publisher step.
FallbackAfterDistributions(m1, errors, sparql_uri, d) ==
    LET dist_response == d.resp
        dist_failed == "error" \in DOMAIN dist_response
        error_msg == "Failed to fetch SPARQL distributions: " \o dist_response["error"].s
        combined_errors == IF dist_failed THEN Append(errors, error_msg) ELSE errors
        distributions == IF dist_failed THEN <<>>
                         ELSE ProcessDistRows(BindingsOf(dist_response), 1, {}, <<>>)
        m2 == Put(m1, "distributions", JList(distributions))
        m3 == IF dist_failed THEN Put(m2, "error_distributions", JStr(error_msg)) ELSE m2
    IN  IF d.raised THEN [st |-> d.st, raised |-> TRUE, result |-> EmptyDict]
        ELSE IF ~CoreDataFound(m3) /\ distributions = <<>> /\ combined_errors # <<>>
        THEN [st |-> d.st, raised |-> FALSE,
              result |-> Put(EmptyDict, "error",
                  JStr("SPARQL fallback failed to retrieve any metadata or distributions for "
                       \o sparql_uri \o ". Errors: " \o Join(combined_errors, "; ")))]
        ELSE [st |-> d.st, raised |-> FALSE,
              result |-> IF combined_errors # <<>>
                         THEN Put(m3, "sparql_errors", JList(combined_errors))
                         ELSE m3]

\* Lines 1115-1145: after the loop over `queries`, whose outcome is a1: the
\* publisher step and the distribution query.
FallbackAfterProperties(a1, sparql_uri, force_refresh, srv) ==
    IF a1.raised THEN [st |-> a1.st, raised |-> TRUE, result |-> EmptyDict]
    ELSE FallbackAfterDistributions(
             PublisherStep(a1.metadata), a1.combined_errors, sparql_uri,
             _execute_sparql_query(a1.st, QueryTextOf[sparql_uri, "distributions"],
                                   force_refresh,
                                   "sparql_dist_" \o Sanitized(sparql_uri),
                                   SparqlAnswer(srv, sparql_uri, "distributions")))

\* A fallback extractor that does not record the URI it queried.
_get_metadata_from_sparql_fallback_unrecorded(st, dataset_uri, force_refresh, srv) ==
    FallbackAfterProperties(
        PropertyLoop([st |-> st, raised |-> FALSE,
                      metadata |-> Put(EmptyDict, "uri", JStr(dataset_uri)),
                      combined_errors |-> <<>>],
                     1, dataset_uri, force_refresh, srv),
        dataset_uri, force_refresh, srv)

\* EUDataTool._get_metadata_from_sparql_fallback: [st, raised, result].
_get_metadata_from_sparql_fallback(st, dataset_uri, force_refresh, srv) ==
    FallbackAfterProperties(
        PropertyLoop([st |-> st, raised |-> FALSE,
                      metadata |-> Put(Put(EmptyDict, "uri", JStr(dataset_uri)),
                                       "sparql_uri_used", JStr(dataset_uri)),
                      combined_errors |-> <<>>],
                     1, dataset_uri, force_refresh, srv),
        dataset_uri, force_refresh, srv)

-----------------------------------------------------------------------------
(* The REST path.                                                          *)

\* A JSON-LD node is a dictionary from property names to values; a value
\* is one item or a list (JList) of items; an item is a dictionary (JDict)
\* that may have "@value", "@language" and "@id", a plain string (JStr) or
\* something else, such as a number.

\* Lines 702-708: item_value, None (JNull) when the item has none.
ItemValue(item) ==
    IF item.t = "dict"
    THEN IF "@value" \in DOMAIN item.d THEN JStr(item.d["@value"])
         ELSE IF "@id" \in DOMAIN item.d THEN JStr(item.d["@id"])
         ELSE JNull
    ELSE IF item.t = "str" THEN item
    ELSE JNull

\* Line 704: item_lang, "" standing for None.
ItemLang(item) ==
    IF item.t = "dict" /\ "@language" \in DOMAIN item.d THEN item.d["@language"] ELSE ""

\* Lines 698-716: the loop over values_to_process from item i on; acc is
\* [results_list, preferred_result, any_result].
RECURSIVE ValueLoop(_, _, _, _)
ValueLoop(values_to_process, i, prefer_locale, acc) ==
    IF i > Len(values_to_process) THEN acc
    ELSE LET item_value == ItemValue(values_to_process[i])
             item_lang == ItemLang(values_to_process[i])
         IN  ValueLoop(values_to_process, i + 1, prefer_locale,
                 IF item_value = JNull THEN acc
                 ELSE [results_list |-> Append(acc.results_list, item_value.s),
                       preferred_result |->
                           IF prefer_locale # "" /\ item_lang = prefer_locale
                                 /\ acc.preferred_result = JNull
                           THEN item_value ELSE acc.preferred_result,
                       any_result |->
                           IF acc.any_result = JNull THEN item_value
                           ELSE acc.any_result])

\* Lines 718-722: what _get_value returns after the loop.
ValueResult(acc, allow_list) ==
    IF allow_list THEN JList(acc.results_list)
    ELSE IF Truthy(acc.preferred_result) THEN acc.preferred_result
    ELSE acc.any_result

\* EUDataTool._get_value; node is JNull or a JDict, prefer_locale "" for None.
_get_value(node, property_uri, prefer_locale, allow_list) ==
    IF node = JNull \/ property_uri \notin DOMAIN node.d
    THEN IF allow_list THEN JList(<<>>) ELSE JNull
    ELSE ValueResult(
             ValueLoop(IF node.d[property_uri].t = "list" THEN node.d[property_uri].l
                       ELSE <<node.d[property_uri]>>,
                       1, prefer_locale,
                       [results_list |-> <<>>, preferred_result |-> JNull,
                        any_result |-> JNull]),
             allow_list)

\* a or b or c for the three names of a publisher.
FirstName(a, b, c) == IF Truthy(a) THEN a ELSE IF Truthy(b) THEN b ELSE c

\* Lines 828-860: the entries "publisher" and "publisher_uri" of `metadata`.
\* nodes_by_id is the index of the graph's nodes by their "@id".
RestPublisher(dataset_node, nodes_by_id, locale) ==
    LET publisher_ref == _get_value(dataset_node, "dct:publisher", "en", FALSE)
    IN  IF publisher_ref.t = "str" /\ startswith(publisher_ref.s, "http")
        THEN IF publisher_ref.s \in DOMAIN nodes_by_id
             THEN Put(EmptyDict, "publisher",
                      FirstName(_get_value(nodes_by_id[publisher_ref.s], "foaf:name",
                                           locale, FALSE),
                                _get_value(nodes_by_id[publisher_ref.s], "skos:prefLabel",
                                           locale, FALSE),
                                _get_value(nodes_by_id[publisher_ref.s], "rdfs:label",
                                           locale, FALSE)))
             ELSE Put(Put(EmptyDict, "publisher", JNull), "publisher_uri", publisher_ref)
        ELSE \* a plain name, or no publisher at all (None)
             Put(EmptyDict, "publisher", publisher_ref)

\* The publisher of the datasets the REST API serves: a reference to a node
\* that the graph does not hold.
PublisherUri == "http://pub.example/eea"
ServedDatasetNode ==
    JDict([k \in {"dct:publisher"} |-> JDict([x \in {"@id"} |-> PublisherUri])])
ServedIndex == [id \in {} |-> JNull]

\* distribution_nodes (lines 783-797) of the graph the REST API serves for
\* a dataset, a node being the function from its JSON-LD keys to their
\* values: a distribution that the graph holds twice and an embedded one
\* that has neither "@id" nor a URL; none for the other datasets.
DistributionNodes(dataset_uri) ==
    IF dataset_uri # UriRest THEN <<>>
    ELSE <<[k \in {"@id", "dcat:downloadURL", "dct:format"} |->
               CASE k = "@id" -> "http://dist.example/1"
                 [] k = "dcat:downloadURL" -> "http://files.example/air.csv"
                 [] k = "dct:format" -> "CSV"],
           [k \in {"@id", "dcat:downloadURL", "dct:format"} |->
               CASE k = "@id" -> "http://dist.example/1"
                 [] k = "dcat:downloadURL" -> "http://files.example/air.csv"
                 [] k = "dct:format" -> "CSV"],
           [k \in {"dct:title"} |-> "Documentation"]>>

\* Lines 882-931: dist_data of a node without its None values.  A format or
\* media type that is a URI gets no label: the graph has no node for it.
RestCleanedDist(dist_node, locale) ==
    LET key == [k \in {"uri", "title", "downloadURL", "accessURL", "format", "mediaType",
                       "byteSize", "modified", "issued", "license", "description"} |->
                    CASE k = "uri" -> "@id"
                      [] k \in {"downloadURL", "accessURL", "mediaType", "byteSize"} ->
                            "dcat:" \o k
                      [] OTHER -> "dct:" \o k]
    IN  [k \in {x \in DOMAIN key : key[x] \in DOMAIN dist_node} |-> JStr(dist_node[key[k]])]

\* A REST extractor that keeps every distribution node it is given.
RECURSIVE RestDistributionsKeepsAll(_, _, _, _)
RestDistributionsKeepsAll(distribution_nodes, i, processed_dist_ids, locale) ==
    IF i > Len(distribution_nodes) THEN <<>>
    ELSE <<RestCleanedDist(distribution_nodes[i], locale)>>
         \o RestDistributionsKeepsAll(distribution_nodes, i + 1, processed_dist_ids, locale)

\* Lines 876-937: metadata["distributions"] for the nodes from i on;
\* processed_dist_ids are the "@id"s already seen.
RECURSIVE RestDistributions(_, _, _, _)
RestDistributions(distribution_nodes, i, processed_dist_ids, locale) ==
    IF i > Len(distribution_nodes) THEN <<>>
    ELSE LET dist_id == RowGet(distribution_nodes[i], "@id")
             cleaned_dist == RestCleanedDist(distribution_nodes[i], locale)
         IN  IF dist_id # "" /\ dist_id \in processed_dist_ids
             THEN RestDistributions(distribution_nodes, i + 1, processed_dist_ids, locale)
             ELSE (IF \E k \in {"uri", "downloadURL", "accessURL"} :
                         Truthy(Get(cleaned_dist, k))
                   THEN <<cleaned_dist>> ELSE <<>>)
                  \o RestDistributions(distribution_nodes, i + 1,
                                       IF dist_id # "" THEN processed_dist_ids \cup {dist_id}
                                       ELSE processed_dist_ids,
                                       locale)

\* The `metadata` dictionary that lines 813-937 fill from the JSON-LD graph
\* the REST API serves for the dataset, before the final cleaning: the
\* title in the requested locale, no description, no issued date, a
\* publisher whose node is not in the graph, no themes.
RestGraphMetadata(dataset_uri, locale, ver) ==
    [k \in {"uri", "title", "description", "modified", "issued", "publisher",
            "publisher_uri", "keywords", "themes", "languages", "licenses",
            "distributions"} |->
        CASE k = "uri" -> JStr(dataset_uri)
          [] k = "title" -> JStr(IF locale = "fr" THEN "Qualite de l'air"
                                 ELSE "Air quality")
          [] k = "modified" -> JStr(ModifiedOf(ver))
          [] k \in {"publisher", "publisher_uri"} ->
                Get(RestPublisher(ServedDatasetNode, ServedIndex, locale), k)
          [] k = "keywords" -> JList(<<"air", "ozone">>)
          [] k = "languages" -> JList(<<"http://lang.example/ENG">>)
          [] k = "distributions" ->
                JList(RestDistributions(DistributionNodes(dataset_uri), 1, {}, locale))
          [] k \in {"themes", "licenses"} -> JList(<<>>)
          [] OTHER -> JNull]

\* Line 940: {k: v for k, v in metadata.items() if v is not None and v != []}
CleanTopLevel(metadata) ==
    [k \in {x \in DOMAIN metadata :
                metadata[x] # JNull /\ metadata[x] # JList(<<>>)} |-> metadata[k]]

\* EUDataTool._get_metadata_from_rest_api: [st, result].
_get_metadata_from_rest_api(st, dataset_uri, locale, srv) ==
    LET dataset_uuid == UuidOf[dataset_uri]
        st1 == Log(st, "net", "rest " \o dataset_uuid \o " " \o locale)
    IN  IF dataset_uuid = NoUuid
        THEN [st |-> st,
              result |-> Put(EmptyDict, "error",
                  JStr("Could not extract UUID from URI for REST API call: "
                       \o dataset_uri))]
        ELSE IF srv.rest = "ok"
        THEN [st |-> st1,
              result |-> CleanTopLevel(RestGraphMetadata(dataset_uri, locale, srv.ver))]
        ELSE [st |-> st1,
              result |-> Put(EmptyDict, "error", JStr("REST API request failed: "
                                                      \o srv.rest))]

-----------------------------------------------------------------------------
(* The metadata resolver.                                                  *)

RestCachePath(dataset_uri, locale) ==
    MetaKeyBaseOf[dataset_uri] \o "_rest_" \o locale \o ".json"
SparqlCachePath(dataset_uri) == MetaKeyBaseOf[dataset_uri] \o "_sparql" \o ".json"

\* What a call comes to: the record returned (or an exception raised), the
\* return statement taken (source), and what the SPARQL fallback extractor
\* returned to the resolver if it ran (fallback: "none" when it did not run,
\* "record", "error" for its consolidated error record, or "raise").
Returned(st, result, source) ==
    [st |-> st, raised |-> FALSE, result |-> result, source |-> source,
     fallback |-> "none"]
Raised(st) ==
    [st |-> st, raised |-> TRUE, result |-> EmptyDict, source |-> "raise",
     fallback |-> "none"]

\* Lines 627-649: cache the final record under the key of the strategy that
\* produced it and return it without its "_" keys.
FinishResolved(st, final_metadata, cache_to_use, source) ==
    Returned(IF final_metadata # EmptyDict
             THEN CacheStore(st, cache_to_use, final_metadata) ELSE st,
             IF final_metadata # EmptyDict THEN StripInternal(final_metadata)
             ELSE Put(EmptyDict, "error",
                      JStr("Metadata retrieval failed through all methods.")),
             source)

\* Lines 607-625: what the resolver does with the outcome f of the fallback.
SparqlAfterFallback(f, sparql_cache_path, rest_error_msg) ==
    IF f.raised THEN [Raised(f.st) EXCEPT !.fallback = "raise"]
    ELSE IF f.result # EmptyDict /\ "error" \notin DOMAIN f.result
    THEN [FinishResolved(f.st, f.result, sparql_cache_path, "sparql")
             EXCEPT !.fallback = "record"]
    ELSE [Returned(f.st,
             Put(EmptyDict, "error",
                 JStr("Failed to retrieve metadata. REST Error: " \o rest_error_msg
                      \o ". SPARQL Error: "
                      \o (IF f.result # EmptyDict THEN Get(f.result, "error").s
                          ELSE "SPARQL method returned None"))),
             "failed") EXCEPT !.fallback = "error"]

\* Lines 571-605: what follows the lookup lk in the cache of the SPARQL path.
SparqlAfterLookup(lk, dataset_uri, force_refresh, srv, rest_error_msg) ==
    IF lk.status = "raise" THEN Raised(lk.st)
    ELSE IF lk.status = "hit" THEN Returned(lk.st, lk.data, "sparql_cache")
    ELSE SparqlAfterFallback(
             _get_metadata_from_sparql_fallback(lk.st, dataset_uri, force_refresh, srv),
             SparqlCachePath(dataset_uri), rest_error_msg)

\* Lines 568-625: the SPARQL strategy, entered with the REST error message.
SparqlStrategy(st, dataset_uri, force_refresh, srv, rest_error_msg) ==
    SparqlAfterLookup(CacheLookup(st, SparqlCachePath(dataset_uri), force_refresh),
                      dataset_uri, force_refresh, srv, rest_error_msg)

\* A resolver that discards the entry of the REST path when the REST
\* extraction has failed.
RestAfterExtractionDropsEntry(r, dataset_uri, force_refresh, locale, srv) ==
    IF r.result # EmptyDict /\ "error" \notin DOMAIN r.result
    THEN FinishResolved(r.st, r.result, RestCachePath(dataset_uri, locale), "rest")
    ELSE SparqlStrategy(IF RestCachePath(dataset_uri, locale) \in DOMAIN r.st.fs
                        THEN RemoveLogged(r.st, RestCachePath(dataset_uri, locale))
                        ELSE r.st,
                        dataset_uri, force_refresh, srv,
                        IF r.result # EmptyDict THEN Get(r.result, "error").s
                        ELSE "REST method returned None")

\* Lines 549-625: what the resolver does with the outcome r of the REST
\* extraction: the record is final, or the SPARQL strategy is tried.
RestAfterExtraction(r, dataset_uri, force_refresh, locale, srv) ==
    IF r.result # EmptyDict /\ "error" \notin DOMAIN r.result
    THEN FinishResolved(r.st, r.result, RestCachePath(dataset_uri, locale), "rest")
    ELSE SparqlStrategy(r.st, dataset_uri, force_refresh, srv,
                        IF r.result # EmptyDict THEN Get(r.result, "error").s
                        ELSE "REST method returned None")

\* Lines 524-549: what follows the lookup lk in the cache of the REST path.
RestAfterLookup(lk, dataset_uri, force_refresh, locale, srv) ==
    IF lk.status = "raise" THEN Raised(lk.st)
    ELSE IF lk.status = "hit" THEN Returned(lk.st, lk.data, "rest_cache")
    ELSE RestAfterExtraction(_get_metadata_from_rest_api(lk.st, dataset_uri, locale, srv),
                             dataset_uri, force_refresh, locale, srv)

\* What follows a lookup lk2 in the cache of the SPARQL path that is made
\* before the REST request.
RestAfterEarlySparqlLookup(lk2, dataset_uri, force_refresh, locale, srv) ==
    IF lk2.status = "raise" THEN Raised(lk2.st)
    ELSE IF lk2.status = "hit" THEN Returned(lk2.st, lk2.data, "sparql_cache")
    ELSE RestAfterExtraction(_get_metadata_from_rest_api(lk2.st, dataset_uri, locale, srv),
                             dataset_uri, force_refresh, locale, srv)

RestAfterLookupSparqlCacheFirst(lk, dataset_uri, force_refresh, locale, srv) ==
    IF lk.status = "raise" THEN Raised(lk.st)
    ELSE IF lk.status = "hit" THEN Returned(lk.st, lk.data, "rest_cache")
    ELSE RestAfterEarlySparqlLookup(
             CacheLookup(lk.st, SparqlCachePath(dataset_uri), force_refresh),
             dataset_uri, force_refresh, locale, srv)

\* A resolver that looks into the cache of the SPARQL path before it makes
\* the REST request.
get_dataset_metadata_sparql_cache_first(st, dataset_uri, force_refresh, locale, srv) ==
    RestAfterLookupSparqlCacheFirst(
        CacheLookup(st, RestCachePath(dataset_uri, locale), force_refresh),
        dataset_uri, force_refresh, locale, srv)

\* EUDataTool.get_dataset_metadata.
get_dataset_metadata(st, dataset_uri, force_refresh, locale, srv) ==
    RestAfterLookup(CacheLookup(st, RestCachePath(dataset_uri, locale), force_refresh),
                    dataset_uri, force_refresh, locale, srv)

-----------------------------------------------------------------------------
(* The content download: get_dataset_content.                              *)

\* self.preferred_formats as __init__ sets it by default (line 50)
DefaultPreferredFormats == <<"CSV", "JSON", "XML", "RDF">>

\* v or "" for a value that is a string or None
StrOf(v) == IF v.t = "str" THEN v.s ELSE ""

\* dist.get("downloadURL") or dist.get("accessURL"), "" when there is none
TargetUrl(dist) ==
    IF StrOf(Get(dist, "downloadURL")) # "" THEN StrOf(Get(dist, "downloadURL"))
    ELSE StrOf(Get(dist, "accessURL"))

\* (format_label or format_val or "").upper()
FormatStringForMatch(dist) ==
    upper(IF StrOf(Get(dist, "format_label")) # "" THEN StrOf(Get(dist, "format_label"))
          ELSE StrOf(Get(dist, "format")))

\* Lines 1310-1361: matches_format for a distribution with a target URL and
\* fmt_pref, a preferred format in upper case.
MatchesFormat(dist, fmt_pref) ==
    LET media_type == upper(StrOf(Get(dist, "mediaType")))
        format_string_for_match == FormatStringForMatch(dist)
        last_segment == LastPart(FirstPart(lower(TargetUrl(dist)), "?"), "/")
    IN  \/ format_string_for_match # "" /\ Contains(format_string_for_match, fmt_pref)
        \/ /\ media_type # ""
           /\ \E mt_part \in SplitParts(media_type, "/") :
                 Contains(mt_part, "/" \o fmt_pref)
        \/ \E ext \in {"." \o lower(fmt_pref), "?format=" \o lower(fmt_pref),
                       "&format=" \o lower(fmt_pref)} :
              Contains(last_segment, ext)
        \/ /\ fmt_pref = "RDF"
           /\ \E rdf_fmt \in {"RDF", "XML", "TURTLE", "N3", "JSON-LD", "OWL"} :
                 Contains(format_string_for_match, rdf_fmt)
        \/ /\ fmt_pref = "XML"
           /\ Contains(media_type, "XML") \/ Contains(format_string_for_match, "XML")
        \/ /\ fmt_pref = "JSON"
           /\ Contains(media_type, "JSON") \/ Contains(format_string_for_match, "JSON")
        \/ /\ fmt_pref = "CSV"
           /\ \/ Contains(media_type, "CSV")
              \/ Contains(format_string_for_match, "CSV")
              \/ Contains(format_string_for_match, "comma-separated")

\* The first value of the three that is truthy, the last one otherwise
\* (a or b or c).
Or3(a, b, c) == IF Truthy(a) THEN a ELSE IF Truthy(b) THEN b ELSE c

\* No distribution selected / distribution i selected with this format.
NotSelected == [found |-> FALSE, index |-> 0, label |-> JNull]
Selected(i, label) == [found |-> TRUE, index |-> i, label |-> label]

\* The selection made so far if there is one, the other one if not.
OrElse(sel, other) == IF sel.found THEN sel ELSE other

\* Lines 1291-1367: the first distribution from i on that has a target URL
\* and matches fmt_pref.
RECURSIVE FirstMatching(_, _, _)
FirstMatching(distributions, i, fmt_pref) ==
    IF i > Len(distributions) THEN NotSelected
    ELSE IF TargetUrl(distributions[i]) # "" /\ MatchesFormat(distributions[i], fmt_pref)
    THEN Selected(i, Or3(Get(distributions[i], "format_label"),
                         Get(distributions[i], "format"), JStr(fmt_pref)))
    ELSE FirstMatching(distributions, i + 1, fmt_pref)

\* A selection that goes through the distributions first: the first one, from
\* i on, that has a target URL and matches any of the preferred formats.
RECURSIVE FirstMatchingAny(_, _, _)
FirstMatchingAny(distributions, i, norm_preferred) ==
    IF i > Len(distributions) THEN NotSelected
    ELSE IF /\ TargetUrl(distributions[i]) # ""
            /\ \E k \in DOMAIN norm_preferred :
                  MatchesFormat(distributions[i], norm_preferred[k])
    THEN Selected(i, Or3(Get(distributions[i], "format_label"),
                         Get(distributions[i], "format"), JStr(norm_preferred[1])))
    ELSE FirstMatchingAny(distributions, i + 1, norm_preferred)
SelectInListOrder(distributions, norm_preferred, k) ==
    FirstMatchingAny(distributions, 1, norm_preferred)

\* Lines 1288-1367: the preferred formats from k on, in their order.
RECURSIVE SelectPreferred(_, _, _)
SelectPreferred(distributions, norm_preferred, k) ==
    IF k > Len(norm_preferred) THEN NotSelected
    ELSE OrElse(FirstMatching(distributions, 1, norm_preferred[k]),
                SelectPreferred(distributions, norm_preferred, k + 1))

\* A last resort that takes the first distribution listed, with or without
\* a URL.
FirstListed(distributions, i) ==
    IF i > Len(distributions) THEN NotSelected
    ELSE Selected(i, IF "format" \in DOMAIN distributions[i]
                     THEN distributions[i]["format"] ELSE JStr("unknown"))

\* Lines 1370-1378: the first distribution from i on with a target URL;
\* its label is dist.get("format_label") or dist.get("format", "unknown").
RECURSIVE FirstWithUrl(_, _)
FirstWithUrl(distributions, i) ==
    IF i > Len(distributions) THEN NotSelected
    ELSE IF TargetUrl(distributions[i]) # ""
    THEN Selected(i, IF Truthy(Get(distributions[i], "format_label"))
                     THEN Get(distributions[i], "format_label")
                     ELSE IF "format" \in DOMAIN distributions[i]
                     THEN distributions[i]["format"]
                     ELSE JStr("unknown"))
    ELSE FirstWithUrl(distributions, i + 1)

\* Lines 1283-1378: the distribution to download.
SelectDistribution(distributions, preferred_formats) ==
    OrElse(SelectPreferred(distributions,
                           [k \in DOMAIN preferred_formats |->
                               upper(preferred_formats[k])],
                           1),
           FirstWithUrl(distributions, 1))

\* The files of a download URL's cache entry (lines 1393-1395): the
\* content and, beside it, the sidecar with its metadata.
ContentCachePath(download_url) ==
    _sanitize_filename("content_" \o download_url) \o ".content"
MetaPathOf(cache_path) == cache_path \o ".meta"

\* What the file server answers to a download at present: the body of the
\* file in the version being served, as text/csv.
DownloadModes == {"ok", "down"}
ContentBody(ver) == "station,ozone;A," \o ToString(ver)
ContentType == "text/csv"

\* What requests.get brings for the download at present: response.content
\* and the Content-Type header; the file of the catalogue's version, unless
\* the file server is one that serves a body of its own.
Served(srv) ==
    IF "body" \in DOMAIN srv
    THEN [body |-> srv.body, content_type |-> srv.content_type]
    ELSE [body |-> ContentBody(srv.ver), content_type |-> ContentType]

\* Lines 1472-1488: a content type that names none of these is binary.
TextMarkers ==
    {"text", "json", "xml", "csv", "html", "rdf", "turtle", "n3", "sparql-results",
     "ld+json"}
IsBinary(content_type) == ~\E ct \in TextMarkers : Contains(content_type, ct)

\* Lines 1494-1512: response.content as it is when binary, decoded when
\* not (the bodies served are ASCII, which decodes to the same characters).
Decoded(body, is_binary) == IF is_binary THEN JBytes(body) ELSE JStr(body)

\* f.read() of a file opened with mode "r" (line 1427): the text with every
\* "\r\n" and every "\r" turned into "\n", as the universal newlines of
\* open() without `newline` have it.
ReadText(text) == replace(replace(text, "\r\n", "\n"), "\r", "\n")

\* Lines 1421-1428: the content read from the file, in mode "rb" when the
\* sidecar says binary and in mode "r" when not.
ReadContent(stored, is_binary) ==
    IF ~Truthy(is_binary) /\ stored.t = "str" THEN JStr(ReadText(stored.s)) ELSE stored

\* A content file holding `content`, written whole.
ContentFile(content) ==
    [kind |-> "content", tsk |-> "missing", ts |-> 0,
     data |-> Put(EmptyDict, "content", JStr(content))]

\* A content file holding the bytes of a binary download, written whole.
BinaryFile(content) ==
    [kind |-> "content", tsk |-> "missing", ts |-> 0,
     data |-> Put(EmptyDict, "content", JBytes(content))]

\* What a content call comes to: as for a metadata call, with the return
\* statement taken in get_dataset_content as the source.
ContentReturned(st, result, source, fallback) ==
    [st |-> st, raised |-> FALSE, result |-> result, source |-> source,
     fallback |-> fallback]
ContentRaised(st, fallback) ==
    [st |-> st, raised |-> TRUE, result |-> EmptyDict, source |-> "raise",
     fallback |-> fallback]
ErrorRecord(msg) == Put(EmptyDict, "error", JStr(msg))

\* Lines 1430-1439 and 1563-1570: the record a content call returns.
ContentRecord(content, format, content_type, is_binary, size, source_url) ==
    [k \in {"content", "format", "content_type", "is_binary", "size", "source_url"} |->
        CASE k = "content" -> content
          [] k = "format" -> format
          [] k = "content_type" -> content_type
          [] k = "is_binary" -> is_binary
          [] k = "size" -> size
          [] k = "source_url" -> source_url]

\* os.remove of both files of an entry, each if it exists (lines 1449-1455)
RemoveBoth(st, cache_path, meta_path) ==
    LET st1 == IF cache_path \in DOMAIN st.fs THEN RemoveLogged(st, cache_path) ELSE st
    IN  IF meta_path \in DOMAIN st1.fs THEN RemoveLogged(st1, meta_path) ELSE st1

\* Lines 1397-1455: the lookup in the content cache.  status is as for
\* CacheLookup, and "stale" when the entry is fresh but was stored for
\* another modification date of the dataset than the metadata now gives.
ContentLookup(st, cache_path, meta_path, force_refresh, dataset_metadata) ==
    IF ~(st.enabled /\ ~force_refresh /\ cache_path \in DOMAIN st.fs
            /\ meta_path \in DOMAIN st.fs)
    THEN [st |-> st, status |-> "skip", data |-> EmptyDict]
    ELSE LET f == st.fs[meta_path]
             c == st.fs[cache_path]
             st1 == Log(st, "read", meta_path)
             cache_time == IF f.tsk = "num" THEN f.ts ELSE 0
             dataset_mod_cached == Get(f.data, "dataset_modified")
             dataset_mod_current == Get(dataset_metadata, "modified")
             is_expired == st.now - cache_time >= CacheTTL
             is_stale == /\ Truthy(dataset_mod_cached)
                         /\ Truthy(dataset_mod_current)
                         /\ dataset_mod_cached # dataset_mod_current
             is_binary == IF "is_binary" \in DOMAIN f.data THEN f.data["is_binary"]
                          ELSE JBool(FALSE)
         IN  IF f.kind \in {"garbage", "partial"}
             THEN \* json.load raises JSONDecodeError: both files are removed
                  [st |-> RemoveBoth(st1, cache_path, meta_path),
                   status |-> "corrupt", data |-> EmptyDict]
             ELSE IF f.kind = "not_object" \/ f.tsk = "bad"
             THEN \* AttributeError / TypeError, not caught here
                  [st |-> st1, status |-> "raise", data |-> EmptyDict]
             ELSE IF is_expired THEN [st |-> st1, status |-> "expired", data |-> EmptyDict]
             ELSE IF is_stale THEN [st |-> st1, status |-> "stale", data |-> EmptyDict]
             ELSE IF c.kind # "content" /\ ~Truthy(is_binary)
             THEN \* f.read() of a text that does not decode: UnicodeDecodeError
                  [st |-> RemoveBoth(Log(st1, "read", cache_path), cache_path, meta_path),
                   status |-> "corrupt", data |-> EmptyDict]
             ELSE [st |-> Log(Log(st1, "read", cache_path), "hit", meta_path),
                   status |-> "hit",
                   data |-> ContentRecord(ReadContent(Get(c.data, "content"), is_binary),
                                Get(f.data, "format"),
                                Get(f.data, "content_type"), is_binary,
                                Get(f.data, "size"), Get(f.data, "source_url"))]

\* Lines 1516-1561: the store of a download: the content goes to
\* cache_path by way of cache_path + ".tmp", then the sidecar to meta_path
\* by way of meta_path + ".tmp".
ContentStore(st, cache_path, meta_path, content, content_metadata) ==
    IF ~st.enabled THEN st
    ELSE LET f1 == OpenForWrite(st.fs, TempFile(cache_path))
             f2 == DumpAndClose(f1, TempFile(cache_path),
                                IF Truthy(content_metadata["is_binary"])
                                THEN BinaryFile(content)
                                ELSE ContentFile(content))
             f3 == OsReplace(f2, TempFile(cache_path), cache_path)
             f4 == OpenForWrite(f3, TempFile(meta_path))
             f5 == DumpAndClose(f4, TempFile(meta_path), Entry(content_metadata, st.now))
             f6 == OsReplace(f5, TempFile(meta_path), meta_path)
         IN  Log(Log([st EXCEPT !.fs = f6], "store", cache_path), "store", meta_path)

\* Lines 1517-1529: content_metadata_to_cache without its timestamp.
ContentMetadataFor(format, content, content_type, is_binary, download_url, dataset_metadata) ==
    [k \in {"format", "content_type", "is_binary", "size", "source_url",
            "dataset_modified"} |->
        CASE k = "format" -> format
          [] k = "content_type" -> JStr(content_type)
          [] k = "is_binary" -> JBool(is_binary)
          [] k = "size" -> JNum(Len(content))
          [] k = "source_url" -> JStr(download_url)
          [] k = "dataset_modified" -> Get(dataset_metadata, "modified")]

\* The same for the file of the catalogue, which is text/csv.
ContentMetadata(format, content, download_url, dataset_metadata) ==
    ContentMetadataFor(format, content, ContentType, FALSE, download_url,
                       dataset_metadata)

\* Variant of the download defined below it: one that stores the entry
\* whether or not the request succeeded.
DownloadStoresFailure(st, dataset_metadata, format, download_url, srv, fallback) ==
    IF srv.download = "ok"
    THEN ContentReturned(
             ContentStore(st, ContentCachePath(download_url),
                          MetaPathOf(ContentCachePath(download_url)),
                          ContentBody(srv.ver),
                          ContentMetadata(format, ContentBody(srv.ver), download_url,
                                          dataset_metadata)),
             ContentRecord(JStr(ContentBody(srv.ver)), format, JStr(ContentType),
                           JBool(FALSE), JNum(Len(ContentBody(srv.ver))),
                           JStr(download_url)),
             "download", fallback)
    ELSE ContentReturned(
             ContentStore(st, ContentCachePath(download_url),
                          MetaPathOf(ContentCachePath(download_url)),
                          "", ContentMetadata(format, "", download_url, dataset_metadata)),
             ErrorRecord("Failed to download content from " \o download_url
                            \o ": " \o srv.download),
             "download_failed", fallback)

\* Lines 1457-1585: the download, the store of what it brought and the
\* return; st is the call after its request was made.
Download(st, dataset_metadata, format, download_url, srv, fallback) ==
    IF srv.download = "ok"
    THEN LET content_type == lower(Served(srv).content_type)
             is_binary == IsBinary(content_type)
             content == Served(srv).body
         IN  ContentReturned(
                 ContentStore(st, ContentCachePath(download_url),
                              MetaPathOf(ContentCachePath(download_url)),
                              content,
                              ContentMetadataFor(format, content, content_type, is_binary,
                                                 download_url, dataset_metadata)),
                 ContentRecord(Decoded(content, is_binary), format, JStr(content_type),
                               JBool(is_binary), JNum(Len(content)),
                               JStr(download_url)),
                 "download", fallback)
    ELSE ContentReturned(st,
             ErrorRecord("Failed to download content from " \o download_url
                            \o ": " \o srv.download),
             "download_failed", fallback)

\* Lines 1440-1459: what follows the lookup lk in the content cache.
ContentAfterLookup(lk, dataset_metadata, format, download_url, srv, fallback) ==
    IF lk.status = "raise" THEN ContentRaised(lk.st, fallback)
    ELSE IF lk.status = "hit"
    THEN ContentReturned(lk.st, lk.data, "content_cache", fallback)
    ELSE Download(Log(lk.st, "net", "download " \o download_url),
                  dataset_metadata, format, download_url, srv, fallback)

\* Lines 1380-1402: what follows the selection sel among `distributions`.
ContentAfterSelection(st, dataset_metadata, distributions, sel, force_refresh, srv, fallback) ==
    IF ~sel.found
    THEN ContentReturned(st,
             ErrorRecord("No suitable distribution with a download or access URL found matching preferred formats or as fallback."),
             "no_suitable", fallback)
    ELSE ContentAfterLookup(
             ContentLookup(st, ContentCachePath(TargetUrl(distributions[sel.index])),
                           MetaPathOf(ContentCachePath(TargetUrl(distributions[sel.index]))),
                           force_refresh, dataset_metadata),
             dataset_metadata, sel.label, TargetUrl(distributions[sel.index]), srv,
             fallback)

\* dataset_metadata.get("distributions", []) as a sequence
DistributionsOf(dataset_metadata) ==
    IF "distributions" \in DOMAIN dataset_metadata
          /\ dataset_metadata["distributions"].t = "list"
    THEN dataset_metadata["distributions"].l
    ELSE <<>>

\* Lines 1260-1283: what follows the metadata call, whose outcome is m.
ContentAfterMetadata(m, preferred_formats, force_refresh, srv) ==
    IF m.raised THEN ContentRaised(m.st, m.fallback)
    ELSE IF "error" \in DOMAIN m.result
    THEN ContentReturned(m.st,
             ErrorRecord("Could not get metadata before fetching content: "
                            \o m.result["error"].s),
             "no_metadata", m.fallback)
    ELSE IF DistributionsOf(m.result) = <<>>
    THEN ContentReturned(m.st,
             ErrorRecord(
                 IF "error_distributions" \in DOMAIN m.result
                 THEN "No distributions could be fetched for this dataset ("
                         \o m.result["error_distributions"].s \o ")"
                 ELSE IF Truthy(Get(m.result, "sparql_uri_used"))
                 THEN "No distributions found for this dataset (via SPARQL fallback)."
                 ELSE "No distributions listed for this dataset in the retrieved metadata."),
             "no_distributions", m.fallback)
    ELSE ContentAfterSelection(m.st, m.result, DistributionsOf(m.result),
             SelectDistribution(DistributionsOf(m.result), preferred_formats),
             force_refresh, srv, m.fallback)

\* EUDataTool.get_dataset_content
get_dataset_content(st, dataset_uri, preferred_formats, force_refresh, srv) ==
    ContentAfterMetadata(get_dataset_metadata(st, dataset_uri, force_refresh, "en", srv),
                         preferred_formats, force_refresh, srv)

-----------------------------------------------------------------------------
(* search_datasets.                                                        *)

\* The datasets of the catalogue in the order a search lists them.
CatalogueOrder == <<UriRest, UriPlain>>

\* The row of the search query for a dataset: its URI, title, keywords
\* joined by "|", publisher name where it has one, and date of modification.
SearchRow(uri, ver) ==
    LET values(name) == [i \in DOMAIN Bindings(uri, name, ver) |->
                            Bindings(uri, name, ver)[i]["value"]]
        base == [k \in {"dataset", "title", "keywords", "modified"} |->
                    CASE k = "dataset" -> uri
                      [] k = "title" -> values("title")[1]
                      [] k = "keywords" -> Join(SelectSeq2(values("keywords"), 1), "|")
                      [] k = "modified" -> values("modified")[1]]
    IN  IF values("publisherName") = <<>> THEN base
        ELSE [k \in DOMAIN base \cup {"publisher"} |->
                 IF k = "publisher" THEN values("publisherName")[1] ELSE base[k]]

\* The rows the endpoint returns for a search: the datasets one of whose
\* keywords matches the pattern, letter case ignored.
RECURSIVE SearchBindings(_, _, _)
SearchBindings(keyword, ver, i) ==
    IF i > Len(CatalogueOrder) THEN <<>>
    ELSE (IF \E r \in SeqRange(Bindings(CatalogueOrder[i], "keywords", ver)) :
                r["value"] # "" /\ Contains(lower(r["value"]), lower(keyword))
          THEN <<SearchRow(CatalogueOrder[i], ver)>>
          ELSE <<>>)
         \o SearchBindings(keyword, ver, i + 1)

\* The rows it returns for the distributions of a list of datasets: those
\* of the fallback's distribution query with the dataset beside them.
RECURSIVE DistChunkBindings(_, _, _)
DistChunkBindings(chunk_uris, ver, i) ==
    IF i > Len(chunk_uris) THEN <<>>
    ELSE LET rows == Bindings(chunk_uris[i], "distributions", ver)
         IN  [n \in DOMAIN rows |->
                 [k \in (DOMAIN rows[n] \ {"format_str"}) \cup {"dataset"} |->
                     IF k = "dataset" THEN chunk_uris[i] ELSE rows[n][k]]]
             \o DistChunkBindings(chunk_uris, ver, i + 1)

\* What requests.get on the SPARQL endpoint comes to for the two queries of
\* a search.
SearchAnswer(srv, keyword) ==
    IF srv.sparql = "garbled"
    THEN [status |-> "not_object", body |-> JList(<<>>)]
    ELSE IF srv.sparql \in {"down", "props_down"}
    THEN [status |-> "http_error", body |-> EmptyDict]
    ELSE [status |-> "ok",
          body |-> [k \in {"results"} |-> JRows(SearchBindings(keyword, srv.ver, 1))]]
DistChunkAnswer(srv, chunk_uris) ==
    IF srv.sparql = "garbled"
    THEN [status |-> "not_object", body |-> JList(<<>>)]
    ELSE IF srv.sparql \in {"down", "dist_down"}
    THEN [status |-> "http_error", body |-> EmptyDict]
    ELSE [status |-> "ok",
          body |-> [k \in {"results"} |-> JRows(DistChunkBindings(chunk_uris, srv.ver, 1))]]

\* Lines 373-381: one row of the distribution query as a distribution,
\* without its empty values.
SearchDist(res) ==
    LET dist == [k \in {"uri", "format", "mediaType", "downloadURL", "accessURL",
                        "byteSize"} |->
                    RowGet(res, IF k = "uri" THEN "dist" ELSE k)]
    IN  [k \in {x \in DOMAIN dist : dist[x] # ""} |-> JStr(dist[k])]

\* Lines 365-390: the distributions of dataset ds among the rows from i on,
\* in the order of their first rows; `seen` are the URIs already kept.
RECURSIVE DistributionsByDataset(_, _, _, _)
DistributionsByDataset(dist_results, i, ds, seen) ==
    IF i > Len(dist_results) THEN <<>>
    ELSE LET ds_uri == RowGet(dist_results[i], "dataset")
             dist_uri == RowGet(dist_results[i], "dist")
         IN  IF ds_uri = "" \/ dist_uri = "" \/ ds_uri # ds \/ dist_uri \in seen
             THEN DistributionsByDataset(dist_results, i + 1, ds, seen)
             ELSE <<SearchDist(dist_results[i])>>
                  \o DistributionsByDataset(dist_results, i + 1, ds, seen \cup {dist_uri})

\* Lines 415-449: matches_format of search_datasets for a distribution with
\* a URL and fmt_pref, a preferred format in upper case.
SearchMatchesFormat(dist, fmt_pref) ==
    LET format_value == upper(StrOf(Get(dist, "format")))
        media_type == upper(StrOf(Get(dist, "mediaType")))
        last_segment == LastPart(FirstPart(lower(TargetUrl(dist)), "?"), "/")
    IN  \/ format_value # "" /\ Contains(format_value, fmt_pref)
        \/ /\ media_type # ""
           /\ \E mt_part \in SplitParts(media_type, "/") :
                 Contains(mt_part, "/" \o fmt_pref)
        \/ \E ext \in {"." \o lower(fmt_pref), "format=" \o lower(fmt_pref)} :
              Contains(last_segment, ext)
        \/ /\ fmt_pref = "RDF"
           /\ \E rdf_fmt \in {"RDF", "XML", "TURTLE", "N3", "JSON-LD"} :
                 Contains(format_value, rdf_fmt)
        \/ fmt_pref = "XML" /\ Contains(media_type, "XML")
        \/ fmt_pref = "JSON" /\ Contains(media_type, "JSON")
        \/ /\ fmt_pref = "CSV"
           /\ Contains(media_type, "CSV") \/ Contains(format_value, "csv")

\* Lines 452-457 and 465-470: best_download for a distribution; its format
\* is dist.get("format") or `guess`.
BestDownload(dist, guess) ==
    JDict([k \in {"url", "format", "mediaType", "byteSize"} |->
              CASE k = "url" -> JStr(TargetUrl(dist))
                [] k = "format" ->
                      IF Truthy(Get(dist, "format")) THEN Get(dist, "format") ELSE guess
                [] OTHER -> Get(dist, k)])

\* What is found when nothing is: best_download stays None.
NoDownload == [found |-> FALSE, download |-> JNull]

\* Lines 409-458: the first distribution from i on that has a URL and
\* matches fmt_pref.
RECURSIVE SearchFirstMatching(_, _, _)
SearchFirstMatching(distributions, i, fmt_pref) ==
    IF i > Len(distributions) THEN NoDownload
    ELSE IF TargetUrl(distributions[i]) # ""
            /\ SearchMatchesFormat(distributions[i], fmt_pref)
    THEN [found |-> TRUE, download |-> BestDownload(distributions[i], JStr(fmt_pref))]
    ELSE SearchFirstMatching(distributions, i + 1, fmt_pref)

\* Lines 406-458: the preferred formats from k on, in their order.
RECURSIVE SearchSelectPreferred(_, _, _)
SearchSelectPreferred(distributions, norm_preferred, k) ==
    IF k > Len(norm_preferred) THEN NoDownload
    ELSE IF SearchFirstMatching(distributions, 1, norm_preferred[k]).found
    THEN SearchFirstMatching(distributions, 1, norm_preferred[k])
    ELSE SearchSelectPreferred(distributions, norm_preferred, k + 1)

\* Lines 461-471: the first distribution from i on with a URL.
RECURSIVE SearchFirstWithUrl(_, _)
SearchFirstWithUrl(distributions, i) ==
    IF i > Len(distributions) THEN NoDownload
    ELSE IF TargetUrl(distributions[i]) # ""
    THEN [found |-> TRUE, download |-> BestDownload(distributions[i], JNull)]
    ELSE SearchFirstWithUrl(distributions, i + 1)

\* Lines 403-471: best_download of a dataset.
SelectBestDownload(distributions, preferred_formats) ==
    IF SearchSelectPreferred(distributions,
                             [k \in DOMAIN preferred_formats |->
                                 upper(preferred_formats[k])], 1).found
    THEN SearchSelectPreferred(distributions,
                               [k \in DOMAIN preferred_formats |->
                                   upper(preferred_formats[k])], 1).download
    ELSE SearchFirstWithUrl(distributions, 1).download

\* s.split(sep) for a separator of one character: the parts in order.
RECURSIVE SplitSeq(_, _)
SplitSeq(s, sep) ==
    IF SepPositions(s, sep) = {} THEN <<s>>
    ELSE <<FirstPart(s, sep)>> \o SplitSeq(SubSeq(s, Len(FirstPart(s, sep)) + 2, Len(s)), sep)

\* Lines 473-487: enhanced_dataset for a row of the search and the
\* distributions found for its dataset.
EnhancedDataset(basic_result, distributions, preferred_formats) ==
    [k \in {"uri", "title", "publisher", "keywords", "modified", "distributions",
            "download"} |->
        CASE k = "uri" -> JStr(basic_result["dataset"])
          [] k = "keywords" ->
                JList(SelectSeq2(SplitSeq(RowGet(basic_result, "keywords"), "|"), 1))
          [] k = "distributions" -> JList(distributions)
          [] k = "download" -> SelectBestDownload(distributions, preferred_formats)
          [] OTHER -> IF k \in DOMAIN basic_result THEN JStr(basic_result[k]) ELSE JNull]

\* Lines 393-488: enhanced_results for the rows of the search from i on.
RECURSIVE EnhancedResults(_, _, _, _)
EnhancedResults(initial_results, i, dist_results, preferred_formats) ==
    IF i > Len(initial_results) THEN <<>>
    ELSE IF RowGet(initial_results[i], "dataset") = ""
    THEN EnhancedResults(initial_results, i + 1, dist_results, preferred_formats)
    ELSE <<EnhancedDataset(initial_results[i],
                           DistributionsByDataset(dist_results, 1,
                                                  initial_results[i]["dataset"], {}),
                           preferred_formats)>>
         \o EnhancedResults(initial_results, i + 1, dist_results, preferred_formats)

\* Lines 362-493: what follows the answer r2 to the distribution query.
SearchAfterDistributions(r2, initial_results, preferred_formats) ==
    IF r2.raised THEN Raised(r2.st)
    ELSE Returned(r2.st,
                  Put(EmptyDict, "results",
                      JList(EnhancedResults(initial_results, 1, BindingsOf(r2.resp),
                                            preferred_formats))),
                  "search")

\* Lines 327-331: dataset_uris
DatasetUrisOf(initial_results) ==
    SelectSeq2([i \in DOMAIN initial_results |-> RowGet(initial_results[i], "dataset")], 1)

\* Lines 313-361: what follows the answer r to the search query: an error
\* record, an empty page, or the query for the distributions of the
\* datasets found (fewer than 50, so one chunk).
SearchAfterQuery(r, preferred_formats, srv) ==
    IF r.raised THEN Raised(r.st)
    ELSE IF "error" \in DOMAIN r.resp
    THEN Returned(r.st,
                  Put(Put(Put(EmptyDict, "error", r.resp["error"]), "results", JList(<<>>)),
                      "total_results", JNum(0)),
                  "search")
    ELSE IF BindingsOf(r.resp) = <<>>
    THEN Returned(r.st, Put(Put(EmptyDict, "total_results", JNum(0)), "results", JList(<<>>)),
                  "search")
    ELSE IF UriValues(DatasetUrisOf(BindingsOf(r.resp))) = ""
    THEN SearchAfterDistributions([st |-> r.st, raised |-> FALSE, resp |-> EmptyDict],
                                  BindingsOf(r.resp), preferred_formats)
    ELSE SearchAfterDistributions(
             _execute_sparql_query(r.st,
                 DistChunkQueryText(UriValues(DatasetUrisOf(BindingsOf(r.resp)))),
                 FALSE, "dists_chunk_0",
                 DistChunkAnswer(srv, DatasetUrisOf(BindingsOf(r.resp)))),
             BindingsOf(r.resp), preferred_formats)

\* EUDataTool.search_datasets for a keyword, the other filters left out.
search_datasets(st, keyword, preferred_formats, srv) ==
    SearchAfterQuery(_execute_sparql_query(st, SearchQueryText(keyword), FALSE, "search",
                                           SearchAnswer(srv, keyword)),
                     preferred_formats, srv)

-----------------------------------------------------------------------------
(* Clearing the cache.                                                     *)

\* The files of a directory in an order, as os.listdir gives them.
RECURSIVE ListDir(_)
ListDir(names) ==
    IF names = {} THEN <<>>
    ELSE LET filename == CHOOSE x \in names : TRUE
         IN  <<filename>> \o ListDir(names \ {filename})

\* os.remove(path) inside try / except OSError: the file goes, unless the
\* removal fails (path is one of `locked`), which is logged.
TryRemove(st, path, locked) ==
    IF path \in locked THEN Log(st, "remove_failed", path)
    ELSE RemoveLogged(st, path)

\* Lines 1606-1618: the two metadata entries clear_cache knows of.
RECURSIVE ClearMetadataEntries(_, _, _, _)
ClearMetadataEntries(st, meta_cache_key_base, suffixes, locked) ==
    IF suffixes = <<>> THEN st
    ELSE LET filename == meta_cache_key_base \o Head(suffixes) \o ".json"
         IN  ClearMetadataEntries(
                 IF filename \in DOMAIN st.fs THEN TryRemove(st, filename, locked)
                 ELSE st,
                 meta_cache_key_base, Tail(suffixes), locked)

\* Lines 1622-1638: prefixes_to_clear
Uri88uOf ==
    [u \in KnownURIs |->
        IF UuidOf[u] = NoUuid THEN ""
        ELSE _sanitize_filename("http://data.europa.eu/88u/dataset/" \o UuidOf[u])]
\* Prefixes that fit the names _execute_sparql_query gives its files, and
\* so the files of every query.
PrefixesToClearAnyQuery(dataset_uri) == {"sparql_"}
PrefixesToClear(dataset_uri) ==
    {"sparql_prop_" \o Sanitized(dataset_uri) \o "_",
     "sparql_dist_" \o Sanitized(dataset_uri)}
    \cup (IF UuidOf[dataset_uri] = NoUuid THEN {}
          ELSE {"sparql_prop_" \o Uri88uOf[dataset_uri] \o "_",
                "sparql_dist_" \o Uri88uOf[dataset_uri]})

\* Lines 1641-1656: the loop over the directory, from file i of `listing` on.
RECURSIVE ClearSubQueryEntries(_, _, _, _, _)
ClearSubQueryEntries(st, listing, i, prefixes_to_clear, locked) ==
    IF i > Len(listing) THEN st
    ELSE ClearSubQueryEntries(
             IF \E prefix \in prefixes_to_clear :
                    startswith(listing[i], prefix) /\ endswith(listing[i], ".json")
             THEN TryRemove(st, listing[i], locked)
             ELSE st,
             listing, i + 1, prefixes_to_clear, locked)

\* Lines 1620-1658: the sub-query entries, looked for in the directory as
\* the removal of the metadata entries left it.
ClearAfterMetadata(st, dataset_uri, locked) ==
    ClearSubQueryEntries(st, ListDir(DOMAIN st.fs), 1, PrefixesToClear(dataset_uri), locked)

\* A full clear that gives up at the first file it cannot delete.
RECURSIVE ClearEveryFileStopsAtFailure(_, _, _, _)
ClearEveryFileStopsAtFailure(acc, listing, i, locked) ==
    IF i > Len(listing) THEN acc
    ELSE IF listing[i] \in locked
    THEN [acc EXCEPT !.st = Log(@, "remove_failed", listing[i]), !.failed_files = @ + 1]
    ELSE ClearEveryFileStopsAtFailure(
             [acc EXCEPT !.st = RemoveLogged(@, listing[i]), !.cleared_files = @ + 1],
             listing, i + 1, locked)

\* Lines 1675-1692: the loop of the full clear; acc is [st, cleared_files,
\* failed_files].
RECURSIVE ClearEveryFile(_, _, _, _)
ClearEveryFile(acc, listing, i, locked) ==
    IF i > Len(listing) THEN acc
    ELSE ClearEveryFile(
             IF listing[i] \in locked
             THEN [acc EXCEPT !.st = Log(@, "remove_failed", listing[i]),
                              !.failed_files = @ + 1]
             ELSE [acc EXCEPT !.st = RemoveLogged(@, listing[i]),
                              !.cleared_files = @ + 1],
             listing, i + 1, locked)

\* The counts the full clear reports when it is done (lines 1687-1692).
ReportCounts(acc) ==
    Log(Log(acc.st, "cleared_files", ToString(acc.cleared_files)),
        "failed_files", ToString(acc.failed_files))

\* clear_cache() is clear_cache(None); any falsy dataset_uri clears all.
NoUri == ""

\* Variant of clear_cache defined below it: one that clears whether or not
\* the cache is enabled.
clear_cache_unguarded(st, dataset_uri, locked) ==
    IF dataset_uri # NoUri
    THEN ClearAfterMetadata(
             ClearMetadataEntries(st, MetaKeyBaseOf[dataset_uri], <<"_rest_en", "_sparql">>,
                                  locked),
             dataset_uri, locked)
    ELSE ReportCounts(ClearEveryFile([st |-> st, cleared_files |-> 0, failed_files |-> 0],
                                     ListDir(DOMAIN st.fs), 1, locked))

\* EUDataTool.clear_cache: the call as it leaves directory and log.  The
\* removal of the files in `locked` fails.
clear_cache(st, dataset_uri, locked) ==
    IF ~st.enabled THEN st
    ELSE IF dataset_uri # NoUri
    THEN ClearAfterMetadata(
             ClearMetadataEntries(st, MetaKeyBaseOf[dataset_uri], <<"_rest_en", "_sparql">>,
                                  locked),
             dataset_uri, locked)
    ELSE ReportCounts(ClearEveryFile([st |-> st, cleared_files |-> 0, failed_files |-> 0],
                                     ListDir(DOMAIN st.fs), 1, locked))

-----------------------------------------------------------------------------
(* The state machine: calls of the public operation, and the environment.  *)

\* No store has been followed step by step yet (see BeginStore).
NoStore ==
    [active |-> FALSE, n |-> 0, kind |-> "none", plan |-> <<>>, i |-> 0, pc |-> "idle",
     before |-> [p \in {} |-> Damaged("garbage", "missing")]]

\* A new instance over an empty cache directory, the endpoints being in one
\* of the given states.
InitWith(servers) ==
    /\ now = StartTime
    /\ fs = [p \in {} |-> Damaged("garbage", "missing")]
    /\ server \in servers
    /\ cache_enabled = TRUE
    /\ calls = <<>>
    /\ env = [corrupt |-> 0, changes |-> 0]
    /\ wr = NoStore

\* At first the SPARQL endpoint answers and the REST API may be failing.
Init == InitWith({s \in ServerStates : s.ver = 1 /\ s.sparql = "up"})

\* The return of a call of `op` ("metadata" for get_dataset_metadata,
\* "content" for get_dataset_content) with outcome r: the directory is as
\* the call left it and the call is on record.
CallReturns(op, dataset_uri, force_refresh, locale, r) ==
    /\ fs' = r.st.fs
    /\ calls' = Append(calls,
           [op |-> op, uri |-> dataset_uri, force |-> force_refresh, locale |-> locale,
            at |-> now, srv |-> server, env |-> env, log |-> r.st.log,
            raised |-> r.raised, result |-> r.result, source |-> r.source,
            fallback |-> r.fallback])

\* One call of get_dataset_metadata, start to return.
GetDatasetMetadata(dataset_uri, force_refresh, locale) ==
    /\ Len(calls) < MaxCalls
    /\ CallReturns("metadata", dataset_uri, force_refresh, locale,
           get_dataset_metadata([fs |-> fs, now |-> now, enabled |-> cache_enabled,
                                 log |-> <<>>],
                                dataset_uri, force_refresh, locale, server))
    /\ UNCHANGED <<now, server, cache_enabled, env, wr>>

\* Time passes (the environment's steps are of interest only while a call
\* is still to come).
Tick ==
    /\ Len(calls) < MaxCalls
    /\ now < StartTime + MaxTicks
    /\ now' = now + 1
    /\ UNCHANGED <<fs, server, cache_enabled, calls, env, wr>>

\* One endpoint starts answering differently (an outage begins or ends), or
\* the catalogue data is updated.
ServerChange(s) ==
    /\ Len(calls) < MaxCalls
    /\ env.changes < MaxServerChanges
    /\ \/ s.rest # server.rest /\ s.sparql = server.sparql /\ s.ver = server.ver
       \/ s.rest = server.rest /\ s.sparql # server.sparql /\ s.ver = server.ver
       \/ s.rest = server.rest /\ s.sparql = server.sparql /\ s.ver = server.ver + 1
    /\ server' = s
    /\ env' = [env EXCEPT !.changes = @ + 1]
    /\ UNCHANGED <<now, fs, cache_enabled, calls, wr>>

\* Something other than this program damages a cache file.
CorruptFile(path, damage) ==
    /\ Len(calls) < MaxCalls
    /\ env.corrupt < MaxCorrupt
    /\ path \in DOMAIN fs
    /\ fs' = [fs EXCEPT ![path] = damage]
    /\ env' = [env EXCEPT !.corrupt = @ + 1]
    /\ UNCHANGED <<now, server, cache_enabled, calls, wr>>

\* The locale of the calls: the default of get_dataset_metadata.
CallLocales == {"en"}

\* The calls of one behaviour are about one dataset.
SameDataset(u) == IF calls = <<>> THEN TRUE ELSE u = calls[1].uri

\* The resolver against endpoints that fail and recover and data that is
\* updated, with an undamaged cache directory.
Next ==
    \/ \E u \in DatasetURIs, force \in BOOLEAN, locale \in CallLocales :
          SameDataset(u) /\ GetDatasetMetadata(u, force, locale)
    \/ Tick
    \/ \E s \in ServerStates : ServerChange(s)

Spec == Init /\ [][Next]_vars

SubQueryCachePath(dataset_uri, name) ==
    QueryCachePath(QueryTextOf[dataset_uri, name],
                   IF name = "distributions" THEN "sparql_dist_" \o Sanitized(dataset_uri)
                   ELSE "sparql_prop_" \o Sanitized(dataset_uri) \o "_" \o name)

\* The files the environment damages: the two metadata entries of a dataset
\* and, of its eleven sub-query entries, a property's and the distributions'.
CorruptTargets ==
    UNION {{RestCachePath(u, "en"), SparqlCachePath(u),
            SubQueryCachePath(u, "title"), SubQueryCachePath(u, "distributions")} :
           u \in DatasetURIs}

\* The resolver with a cache directory that gets damaged.
NextCorrupt ==
    \/ \E u \in DatasetURIs, force \in BOOLEAN, locale \in CallLocales :
          SameDataset(u) /\ GetDatasetMetadata(u, force, locale)
    \/ Tick
    \/ \E p \in CorruptTargets, d \in DamageKinds : CorruptFile(p, d)

InitCorrupt == InitWith({s \in ServerStates : s.ver = 1 /\ s.sparql \in {"up", "down"}})

SpecCorrupt == InitCorrupt /\ [][NextCorrupt]_vars

\* One call of get_dataset_content with the instance's preferred formats,
\* start to return.
GetDatasetContent(dataset_uri, force_refresh) ==
    /\ Len(calls) < MaxCalls
    /\ CallReturns("content", dataset_uri, force_refresh, "en",
           get_dataset_content([fs |-> fs, now |-> now, enabled |-> cache_enabled,
                                log |-> <<>>],
                               dataset_uri, DefaultPreferredFormats, force_refresh,
                               server))
    /\ UNCHANGED <<now, server, cache_enabled, env, wr>>

\* The endpoints of a content call: the REST API, the SPARQL endpoint
\* (answering throughout) and the file server of the downloads.
ContentServerStates ==
    [rest : RestModes, sparql : {"up"}, ver : Versions, download : DownloadModes]

\* One of them starts answering differently, or the data is updated.
ContentServerChange(s) ==
    /\ Len(calls) < MaxCalls
    /\ env.changes < MaxServerChanges
    /\ \/ s = [server EXCEPT !.rest = s.rest] /\ s.rest # server.rest
       \/ s = [server EXCEPT !.download = s.download] /\ s.download # server.download
       \/ s = [server EXCEPT !.ver = server.ver + 1]
    /\ server' = s
    /\ env' = [env EXCEPT !.changes = @ + 1]
    /\ UNCHANGED <<now, fs, cache_enabled, calls, wr>>

\* The download URL of the dataset whose metadata lists distributions, and
\* the two files of its entry in the content cache.
DownloadUrl == "http://files.example/air.csv"
ContentPath == ContentCachePath(DownloadUrl)
SidecarPath == MetaPathOf(ContentPath)

\* An entry rewritten as an object without "_cache_timestamp".
NoTimestamp == Damaged("object", "missing")

\* Something other than this program rewrites an entry so; it is one of the
\* changes the environment makes in a behaviour of content calls.
LoseTimestamp(path) ==
    /\ Len(calls) < MaxCalls
    /\ env.changes < MaxServerChanges
    /\ path \in DOMAIN fs
    /\ fs[path] # NoTimestamp
    /\ fs' = [fs EXCEPT ![path] = NoTimestamp]
    /\ env' = [env EXCEPT !.changes = @ + 1]
    /\ UNCHANGED <<now, server, cache_enabled, calls, wr>>

\* The entries that lose their timestamp: the metadata record of the SPARQL
\* path, a sub-query result and the sidecar of the downloaded content.
TimestampTargets ==
    {SparqlCachePath(UriRest), SubQueryCachePath(UriRest, "title"), SidecarPath}

\* Content calls for the dataset that has distributions, against endpoints
\* that fail and recover and data that is updated, over a cache whose
\* entries may lose their timestamp.
NextContent ==
    \/ \E force \in BOOLEAN : GetDatasetContent(UriRest, force)
    \/ Tick
    \/ \E s \in ContentServerStates : ContentServerChange(s)
    \/ \E p \in TimestampTargets : LoseTimestamp(p)

InitContent ==
    InitWith({s \in ContentServerStates :
                 s.ver = 1 /\ s.download = "ok"})

SpecContent == InitContent /\ [][NextContent]_vars

\* The endpoints of content calls whose metadata may lack the date of
\* modification: the file server answers, and the SPARQL endpoint answers
\* all queries or only the one for the distributions.
StaleServerStates ==
    [rest : RestModes, sparql : {"up", "props_down"}, ver : Versions, download : {"ok"}]

\* One of the endpoints starts answering differently, or the data is updated.
StaleServerChange(s) ==
    /\ Len(calls) < MaxCalls
    /\ env.changes < MaxServerChanges
    /\ \/ s = [server EXCEPT !.rest = s.rest] /\ s.rest # server.rest
       \/ s = [server EXCEPT !.sparql = s.sparql] /\ s.sparql # server.sparql
       \/ s = [server EXCEPT !.ver = server.ver + 1]
    /\ server' = s
    /\ env' = [env EXCEPT !.changes = @ + 1]
    /\ UNCHANGED <<now, fs, cache_enabled, calls, wr>>

\* Content calls while the metadata of the dataset changes between them.
NextStale ==
    \/ \E force \in BOOLEAN : GetDatasetContent(UriRest, force)
    \/ Tick
    \/ \E s \in StaleServerStates : StaleServerChange(s)

InitStale == InitWith({s \in StaleServerStates : s.ver = 1})

SpecStale == InitStale /\ [][NextStale]_vars

\* One call of search_datasets for a keyword, start to return.
SearchDatasets(keyword) ==
    /\ Len(calls) < MaxCalls
    /\ CallReturns("search", keyword, FALSE, "en",
           search_datasets([fs |-> fs, now |-> now, enabled |-> cache_enabled,
                            log |-> <<>>],
                           keyword, DefaultPreferredFormats, server))
    /\ UNCHANGED <<now, server, cache_enabled, env, wr>>

\* One call of clear_cache, start to return, for a dataset or (NoUri) for
\* the whole directory, while the files in `locked` cannot be removed.
ClearCache(dataset_uri, locked) ==
    /\ Len(calls) < MaxCalls
    /\ CallReturns("clear", dataset_uri, FALSE, "en",
           Returned(clear_cache([fs |-> fs, now |-> now, enabled |-> cache_enabled,
                                 log |-> <<>>],
                                dataset_uri, locked),
                    EmptyDict, "clear"))
    /\ UNCHANGED <<now, server, cache_enabled, env, wr>>

\* The calls of an earlier session of the program over the same directory.
PriorSession ==
    <<[op |-> "search", arg |-> "air", locale |-> "en"],
      [op |-> "content", arg |-> UriRest, locale |-> "en"],
      [op |-> "metadata", arg |-> UriPlain, locale |-> "en"],
      [op |-> "metadata", arg |-> UriRest, locale |-> "fr"],
      [op |-> "metadata", arg |-> UriRest, locale |-> "en"]>>

\* The directory as the calls of `plan` from i on leave it.
RECURSIVE LeftBy(_, _, _, _)
LeftBy(st, plan, i, srv) ==
    IF i > Len(plan) THEN st.fs
    ELSE LeftBy(CASE plan[i].op = "search" ->
                        search_datasets(st, plan[i].arg, DefaultPreferredFormats, srv).st
                  [] plan[i].op = "content" ->
                        get_dataset_content(st, plan[i].arg, DefaultPreferredFormats,
                                            FALSE, srv).st
                  [] plan[i].op = "metadata" ->
                        get_dataset_metadata(st, plan[i].arg, FALSE, plan[i].locale, srv).st,
                plan, i + 1, srv)

\* The endpoints while the cache is cleared: the SPARQL endpoint and the
\* file server answer, the REST API answers or fails.
ClearServerStates == {s \in ContentServerStates : s.ver = 1 /\ s.download = "ok"}

\* A new instance over the directory an earlier session left, which made
\* the first calls of PriorSession, or none.
InitClear ==
    /\ now = StartTime
    /\ server \in ClearServerStates
    /\ \E n \in 0..Len(PriorSession) :
          fs = LeftBy([fs |-> [p \in {} |-> Damaged("garbage", "missing")],
                       now |-> StartTime, enabled |-> TRUE, log |-> <<>>],
                      SubSeq(PriorSession, 1, n), 1, server)
    /\ cache_enabled = TRUE
    /\ calls = <<>>
    /\ env = [corrupt |-> 0, changes |-> 0]
    /\ wr = NoStore

\* The files whose removal may fail: a metadata entry and a downloaded
\* content.
LockTargets == {RestCachePath(UriRest, "en"), ContentPath}

\* Clearing the cache between calls that fill it.
NextClear ==
    \/ \E u \in DatasetURIs \cup {NoUri}, locked \in {{}} \cup {{p} : p \in LockTargets} :
          ClearCache(u, locked)
    \/ \E u \in DatasetURIs, locale \in Locales : GetDatasetMetadata(u, FALSE, locale)
    \/ \E keyword \in SearchKeywords : SearchDatasets(keyword)
    \/ GetDatasetContent(UriRest, FALSE)

SpecClear == InitClear /\ [][NextClear]_vars

\* Searches and metadata calls for the datasets of the catalogue, the one
\* without distributions among them, while the endpoints stay as they are
\* at first: each answering or failing in one of its ways.
NextRecords ==
    \/ \E u \in KnownURIs, force \in BOOLEAN, locale \in CallLocales :
          GetDatasetMetadata(u, force, locale)
    \/ \E keyword \in SearchKeywords : SearchDatasets(keyword)
    \/ Tick

InitRecords == InitWith({s \in ServerStates : s.ver = 1})

SpecRecords == InitRecords /\ [][NextRecords]_vars

\* Distributions a dataset may list: a CSV file, a JSON service whose format
\* is written in small letters, a CSV entry without any URL, and a file of
\* a format nobody asks for.
DistCsv ==
    [k \in {"uri", "downloadURL", "format"} |->
        JStr(CASE k = "uri" -> "http://dist.example/1"
               [] k = "downloadURL" -> "http://files.example/air.csv"
               [] k = "format" -> "CSV")]
DistJson ==
    [k \in {"uri", "accessURL", "format"} |->
        JStr(CASE k = "uri" -> "http://dist.example/2"
               [] k = "accessURL" -> "http://files.example/air"
               [] k = "format" -> "json")]
DistNoUrl ==
    [k \in {"uri", "format"} |->
        JStr(CASE k = "uri" -> "http://dist.example/3"
               [] k = "format" -> "CSV")]
DistOther ==
    [k \in {"uri", "downloadURL", "format"} |->
        JStr(CASE k = "uri" -> "http://dist.example/4"
               [] k = "downloadURL" -> "http://files.example/air.bin"
               [] k = "format" -> "PDF")]
DistSamples == {DistCsv, DistJson, DistNoUrl, DistOther}

\* The lists of distributions of a dataset: those of up to three samples,
\* each at most once, in every order.
DistributionLists3 ==
    {q \in UNION {[1..n -> DistSamples] : n \in 0..3} :
        \A i, j \in DOMAIN q : i # j => q[i] # q[j]}

\* The preferred formats of a call: the two orders of CSV and JSON, in
\* capital and in small letters, and a format no sample has.
PreferredSamples ==
    {<<"CSV", "JSON">>, <<"JSON", "CSV">>, <<"csv", "json">>, <<"json", "csv">>, <<"XML">>}

\* The selection get_dataset_content makes (lines 1283-1378) among the
\* distributions the catalogue lists for a dataset, with the preferred
\* formats given.
SelectFormat(preferred_formats) ==
    /\ Len(calls) < MaxCalls
    /\ calls' = Append(calls,
           [op |-> "select", distributions |-> server.distributions,
            preferred_formats |-> preferred_formats,
            result |-> SelectDistribution(server.distributions, preferred_formats)])
    /\ UNCHANGED <<now, fs, server, cache_enabled, env, wr>>

NextSelect == \E preferred_formats \in PreferredSamples : SelectFormat(preferred_formats)

InitSelect == InitWith([distributions : DistributionLists3])

SpecSelect == InitSelect /\ [][NextSelect]_vars

\* The longest list of distributions an earlier session found for a dataset.
MaxListed == 2

\* The lists of distributions the catalogue may have had for the dataset:
\* up to MaxListed of the samples, each at most once, in every order.
ListedDistributions ==
    {q \in UNION {[1..n -> DistSamples] : n \in 0..MaxListed} :
        \A i, j \in DOMAIN q : i # j => q[i] # q[j]}

\* The record of the dataset as the REST path returned and stored it (line
\* 940 and lines 627-642) when the catalogue had these distributions for it.
ListedRecord(distributions) ==
    CleanTopLevel(Put(RestGraphMetadata(UriRest, "en", 1), "distributions",
                      JList(distributions)))

\* The instance of a content session: its endpoints and, as `preferred`,
\* the preferred_formats it was constructed with (line 50).
PickServerStates ==
    [rest : {"ok"}, sparql : {"up"}, ver : {1}, download : DownloadModes,
     preferred : {<<"CSV", "JSON">>, <<"XML">>}]

\* One call of get_dataset_content that leaves preferred_formats to the
\* instance (lines 1251-1252), start to return.
GetContentPreferred(dataset_uri, force_refresh) ==
    /\ Len(calls) < MaxCalls
    /\ CallReturns("content", dataset_uri, force_refresh, "en",
           get_dataset_content([fs |-> fs, now |-> now, enabled |-> cache_enabled,
                                log |-> <<>>],
                               dataset_uri, server.preferred, force_refresh, server))
    /\ UNCHANGED <<now, server, cache_enabled, env, wr>>

NextPick == \E force \in BOOLEAN : GetContentPreferred(UriRest, force)

\* The instance starts over the directory of an earlier session, which
\* resolved the dataset when the catalogue had one of the lists for it.
InitPick ==
    /\ now = StartTime
    /\ \E q \in ListedDistributions :
          fs = [p \in {RestCachePath(UriRest, "en")} |->
                   Entry(ListedRecord(q), StartTime)]
    /\ server \in PickServerStates
    /\ cache_enabled = TRUE
    /\ calls = <<>>
    /\ env = [corrupt |-> 0, changes |-> 0]
    /\ wr = NoStore

SpecPick == InitPick /\ [][NextPick]_vars

\* The query of the SPARQL client's own behaviours: the title of a dataset,
\* under the cache key the fallback gives it.
TitleQuery == QueryTextOf[UriRest, "title"]
TitleSuffix == "sparql_prop_" \o Sanitized(UriRest) \o "_title"

\* One invocation of _execute_sparql_query, start to return or raise, the
\* network call coming to `answer` if it is made.
ExecuteSparqlQuery(query, force_refresh, cache_key_suffix, answer) ==
    /\ Len(calls) < MaxCalls
    /\ LET r == _execute_sparql_query([fs |-> fs, now |-> now,
                                       enabled |-> cache_enabled, log |-> <<>>],
                                      query, force_refresh, cache_key_suffix, answer)
       IN  /\ fs' = r.st.fs
           /\ calls' = Append(calls,
                  [op |-> "query", query |-> query, force |-> force_refresh,
                   at |-> now, answer |-> answer.status, log |-> r.st.log,
                   raised |-> r.raised, resp |-> r.resp])
    /\ UNCHANGED <<now, server, cache_enabled, env, wr>>

NextQuery ==
    \/ \E force \in BOOLEAN, answer \in QueryAnswers :
          ExecuteSparqlQuery(TitleQuery, force, TitleSuffix, answer)
    \/ Tick

\* An instance constructed with its cache on or off, over an empty directory.
InitQuery ==
    /\ now = StartTime
    /\ fs = [p \in {} |-> Damaged("garbage", "missing")]
    /\ server = [rest |-> "ok", sparql |-> "up", ver |-> 1]
    /\ cache_enabled \in BOOLEAN
    /\ calls = <<>>
    /\ env = [corrupt |-> 0, changes |-> 0]
    /\ wr = NoStore

SpecQuery == InitQuery /\ [][NextQuery]_vars

\* The endpoints of the public operations taken together: the REST API
\* answers or fails, the SPARQL endpoint answers as it should or with bodies
\* that are no JSON objects, and the file server answers.
PublicServerStates ==
    [rest : RestModes, sparql : {"up", "garbled"}, ver : {1}, download : {"ok"}]

\* The public operations, called on a new instance in any order.
NextPublic ==
    \/ \E u \in DatasetURIs, force \in BOOLEAN : GetDatasetMetadata(u, force, "en")
    \/ SearchDatasets("air")
    \/ GetDatasetContent(UriRest, FALSE)
    \/ \E u \in {UriRest, NoUri} : ClearCache(u, {})

InitPublic == InitWith(PublicServerStates)

SpecPublic == InitPublic /\ [][NextPublic]_vars

\* The two tiers of the metadata cache of one dataset: the entries of the
\* REST path, one for each locale, and the entry of the SPARQL path.
TierPaths ==
    {RestCachePath(UriRest, l) : l \in Locales} \cup {SparqlCachePath(UriRest)}

\* The endpoints of these behaviours: the SPARQL endpoint answers, the REST
\* API answers or fails, and the data stays as it is.
TierServerStates == {s \in ServerStates : s.ver = 1 /\ s.sparql = "up"}

\* The resolver called for one dataset in either locale while the REST API
\* fails and recovers and files of the two tiers get overwritten with text
\* that does not parse.
NextTiers ==
    \/ \E force \in BOOLEAN, locale \in Locales :
          GetDatasetMetadata(UriRest, force, locale)
    \/ \E s \in TierServerStates : ServerChange(s)
    \/ \E p \in TierPaths : CorruptFile(p, Damaged("garbage", "missing"))

InitTiers == InitWith(TierServerStates)

SpecTiers == InitTiers /\ [][NextTiers]_vars

\* Items a property of a JSON-LD node may hold: literals in English and in
\* German, an empty literal in English, a reference, a plain string, an
\* object with a language and nothing else, and a number.
Literal(value, language) ==
    JDict([k \in {"@value", "@language"} |-> IF k = "@value" THEN value ELSE language])
ItemSamples ==
    {Literal("Air", "en"), Literal("Luft", "de"), Literal("", "en"),
     JDict([k \in {"@id"} |-> "http://ref.example/1"]), JStr("plain"),
     JDict([k \in {"@language"} |-> "en"]), JNum(7)}

\* The values of a property: one item, or a list of up to two.
ValueSamples ==
    ItemSamples \cup {JList(q) : q \in UNION {[1..n -> ItemSamples] : n \in 0..2}}

\* Nodes of a publisher: each of the three names there or not.
NameProperties == <<"foaf:name", "skos:prefLabel", "rdfs:label">>
PublisherNodes ==
    {JDict([k \in {"@id"} \cup names |->
               CASE k = "@id" -> JStr(PublisherUri)
                 [] k = "foaf:name" -> JList(<<Literal("European Environment Agency", "en"),
                                               Literal("Agence europeenne", "fr")>>)
                 [] k = "skos:prefLabel" -> JStr("EEA")
                 [] k = "rdfs:label" -> Literal("Environment agency", "en")]) :
        names \in SUBSET {NameProperties[i] : i \in DOMAIN NameProperties}}

\* The graphs the REST API may serve, as [dataset_node, nodes_by_id]: a
\* dataset whose title is any of the values, or that has none, or no
\* dataset node at all; and a dataset whose publisher is a reference to a
\* node the graph holds or does not hold, or a plain name.
Graphs ==
    {[dataset_node |-> JDict([k \in {"dct:title"} |-> v]), nodes_by_id |-> ServedIndex] :
        v \in ValueSamples}
    \cup {[dataset_node |-> JDict(EmptyDict), nodes_by_id |-> ServedIndex],
          [dataset_node |-> JNull, nodes_by_id |-> ServedIndex],
          [dataset_node |-> ServedDatasetNode, nodes_by_id |-> ServedIndex],
          [dataset_node |-> JDict([k \in {"dct:publisher"} |-> JStr("EEA")]),
           nodes_by_id |-> ServedIndex]}
    \cup {[dataset_node |-> ServedDatasetNode,
           nodes_by_id |-> [id \in {PublisherUri} |-> n]] : n \in PublisherNodes}

\* _get_value applied to the title of the dataset node.
GetValue(prefer_locale, allow_list) ==
    /\ Len(calls) < MaxCalls
    /\ calls' = Append(calls,
           [op |-> "value", prefer_locale |-> prefer_locale, allow_list |-> allow_list,
            result |-> _get_value(server.dataset_node, "dct:title", prefer_locale,
                                  allow_list)])
    /\ UNCHANGED <<now, fs, server, cache_enabled, env, wr>>

\* The publisher entries of the record the REST extractor returns for the
\* graph: lines 828-860, and line 940, which removes the None values.
ExtractPublisher(locale) ==
    /\ Len(calls) < MaxCalls
    /\ server.dataset_node # JNull
    /\ calls' = Append(calls,
           [op |-> "publisher", locale |-> locale,
            result |-> CleanTopLevel(RestPublisher(server.dataset_node,
                                                   server.nodes_by_id, locale))])
    /\ UNCHANGED <<now, fs, server, cache_enabled, env, wr>>

NextGraph ==
    \/ \E prefer_locale \in {"en", "de", ""}, allow_list \in BOOLEAN :
          GetValue(prefer_locale, allow_list)
    \/ \E locale \in Locales : ExtractPublisher(locale)

InitGraph == InitWith(Graphs)

SpecGraph == InitGraph /\ [][NextGraph]_vars

\* Distributions whose format shows in one place only: in a format that
\* spells CSV out, in the query of the URL, in the media type, in the last
\* segment of the URL's path, and a format of the RDF family.
DistCommaSeparated ==
    [k \in {"uri", "downloadURL", "format"} |->
        JStr(CASE k = "uri" -> "http://dist.example/5"
               [] k = "downloadURL" -> "http://files.example/table"
               [] k = "format" -> "Comma-Separated Values")]
DistFormatQuery ==
    [k \in {"uri", "accessURL"} |->
        JStr(CASE k = "uri" -> "http://dist.example/6"
               [] k = "accessURL" -> "http://files.example/export?id=7&format=csv")]
DistMediaRdf ==
    [k \in {"uri", "accessURL", "mediaType"} |->
        JStr(CASE k = "uri" -> "http://dist.example/7"
               [] k = "accessURL" -> "http://files.example/graph"
               [] k = "mediaType" -> "application/rdf")]
DistFormatSegment ==
    [k \in {"uri", "accessURL"} |->
        JStr(CASE k = "uri" -> "http://dist.example/8"
               [] k = "accessURL" -> "http://files.example/api/format=csv")]
DistOwl ==
    [k \in {"uri", "downloadURL", "format"} |->
        JStr(CASE k = "uri" -> "http://dist.example/9"
               [] k = "downloadURL" -> "http://files.example/onto"
               [] k = "format" -> "OWL")]
MatchSamples ==
    {DistCsv, DistOther, DistCommaSeparated, DistFormatQuery, DistMediaRdf,
     DistFormatSegment, DistOwl}

\* The lists of up to two of them, each at most once, in both orders.
MatchLists2 ==
    {q \in UNION {[1..n -> MatchSamples] : n \in 0..2} :
        \A i, j \in DOMAIN q : i # j => q[i] # q[j]}

MatchPreferred == {<<"CSV">>, <<"RDF">>, <<"CSV", "RDF">>}

\* The selection search_datasets makes (lines 402-471) among the
\* distributions it found for a dataset, with the preferred formats given.
SelectBest(preferred_formats) ==
    /\ Len(calls) < MaxCalls
    /\ calls' = Append(calls,
           [op |-> "best", distributions |-> server.distributions,
            preferred_formats |-> preferred_formats,
            result |-> SelectBestDownload(server.distributions, preferred_formats)])
    /\ UNCHANGED <<now, fs, server, cache_enabled, env, wr>>

NextMatch ==
    \/ \E preferred_formats \in MatchPreferred : SelectFormat(preferred_formats)
    \/ \E preferred_formats \in MatchPreferred : SelectBest(preferred_formats)

InitMatch == InitWith([distributions : MatchLists2])

SpecMatch == InitMatch /\ [][NextMatch]_vars

\* EUDataTool.REQUEST_DELAY (line 26), half a second, in ticks of the clock
\* of the behaviours below, where a tick is a quarter of a second.
REQUEST_DELAY == 2

\* Variant of the delay check defined below it: one that never sleeps.
EnsureRequestDelayNoSleep(clock, last_request_time) ==
    [clock |-> clock, last_request_time |-> clock]

\* EUDataTool._ensure_request_delay (lines 58-64) at time `clock`: the time
\* when it returns, after time.sleep if it sleeps, and the
\* self._last_request_time it leaves.
_ensure_request_delay(clock, last_request_time) ==
    LET elapsed == clock - last_request_time
        after == IF elapsed < REQUEST_DELAY
                 THEN clock + (REQUEST_DELAY - elapsed)
                 ELSE clock
    IN  [clock |-> after, last_request_time |-> after]

\* The outbound requests of a call in the order of its log (each of
\* requests.get at lines 126, 742 and 1462 comes right after the delay check
\* of lines 123, 740 and 1458), every request taking `duration`: the times
\* at which the requests start, the time when the last has returned and the
\* self._last_request_time the call leaves.
RECURSIVE RequestTimes(_, _, _, _, _, _)
RequestTimes(log, i, clock, last_request_time, duration, starts) ==
    IF i > Len(log)
    THEN [clock |-> clock, last_request_time |-> last_request_time, starts |-> starts]
    ELSE IF log[i].ev # "net"
    THEN RequestTimes(log, i + 1, clock, last_request_time, duration, starts)
    ELSE LET d == _ensure_request_delay(clock, last_request_time)
         IN  RequestTimes(log, i + 1, d.clock + duration, d.last_request_time,
                          duration, Append(starts, d.clock))

\* The return of a call whose outcome is r, with the times of its requests.
TimedReturn(op, force_refresh, duration, r) ==
    LET t == RequestTimes(r.st.log, 1, now, wr._last_request_time, duration, <<>>)
    IN  /\ fs' = r.st.fs
        /\ now' = t.clock
        /\ wr' = [_last_request_time |-> t.last_request_time]
        /\ calls' = Append(calls,
               [op |-> op, force |-> force_refresh, at |-> now, log |-> r.st.log,
                starts |-> t.starts, returned |-> t.clock,
                last_before |-> wr._last_request_time,
                last_after |-> t.last_request_time])
        /\ UNCHANGED <<server, cache_enabled, env>>

\* Calls of get_dataset_metadata and get_dataset_content, start to return,
\* each request of the call taking `duration`.
TimedMetadata(force_refresh, duration) ==
    /\ Len(calls) < MaxCalls
    /\ TimedReturn("metadata", force_refresh, duration,
           get_dataset_metadata([fs |-> fs, now |-> now, enabled |-> cache_enabled,
                                 log |-> <<>>],
                                UriRest, force_refresh, "en", server))

TimedContent(force_refresh, duration) ==
    /\ Len(calls) < MaxCalls
    /\ TimedReturn("content", force_refresh, duration,
           get_dataset_content([fs |-> fs, now |-> now, enabled |-> cache_enabled,
                                log |-> <<>>],
                               UriRest, DefaultPreferredFormats, force_refresh, server))

\* Time passes between two calls.
TickDelay ==
    /\ Len(calls) < MaxCalls
    /\ now < StartTime + MaxTicks
    /\ now' = now + 1
    /\ UNCHANGED <<fs, server, cache_enabled, calls, env, wr>>

Durations == {0, 1}

NextDelay ==
    \/ \E force \in BOOLEAN, duration \in Durations : TimedMetadata(force, duration)
    \/ \E force \in BOOLEAN, duration \in Durations : TimedContent(force, duration)
    \/ TickDelay

\* A new instance (line 51: self._last_request_time = 0) over an empty
\* directory; the REST API answers or fails, the others answer.
InitDelay ==
    /\ now = StartTime
    /\ fs = [p \in {} |-> Damaged("garbage", "missing")]
    /\ server \in {s \in ContentServerStates : s.ver = 1 /\ s.download = "ok"}
    /\ cache_enabled = TRUE
    /\ calls = <<>>
    /\ env = [corrupt |-> 0, changes |-> 0]
    /\ wr = [_last_request_time |-> 0]

SpecDelay == InitDelay /\ [][NextDelay]_vars

\* The cache files that network results are stored in: the result of a
\* query, and the content of a download with its sidecar.
TitleCachePath == QueryCachePath(TitleQuery, TitleSuffix)
FailureTargets == {TitleCachePath, SidecarPath}

\* The file server starts or stops answering.
DownloadChange ==
    /\ Len(calls) < MaxCalls
    /\ env.changes < MaxServerChanges
    /\ server' = [server EXCEPT !.download = IF @ = "ok" THEN "down" ELSE "ok"]
    /\ env' = [env EXCEPT !.changes = @ + 1]
    /\ UNCHANGED <<now, fs, cache_enabled, calls, wr>>

\* The SPARQL client and get_dataset_content called while requests fail and
\* succeed and cache files get overwritten with text that does not parse.
NextFailure ==
    \/ \E force \in BOOLEAN, answer \in QueryAnswers :
          ExecuteSparqlQuery(TitleQuery, force, TitleSuffix, answer)
    \/ \E force \in BOOLEAN : GetDatasetContent(UriRest, force)
    \/ DownloadChange
    \/ \E p \in FailureTargets : CorruptFile(p, Damaged("garbage", "missing"))

InitFailure == InitWith({s \in ContentServerStates : s.ver = 1 /\ s.rest = "ok"})

SpecFailure == InitFailure /\ [][NextFailure]_vars

\* The resolver called for one dataset, with and without force_refresh,
\* while the REST API fails and recovers and time passes.
NextRefresh ==
    \/ \E force \in BOOLEAN : GetDatasetMetadata(UriRest, force, "en")
    \/ Tick
    \/ \E s \in TierServerStates : ServerChange(s)

\* A new instance over an empty directory or over the directory of an
\* earlier session, which resolved the dataset while the REST API answered.
InitRefresh ==
    /\ now = StartTime
    /\ server \in TierServerStates
    /\ \E n \in 0..1 :
          fs = LeftBy([fs |-> [p \in {} |-> Damaged("garbage", "missing")],
                       now |-> StartTime, enabled |-> TRUE, log |-> <<>>],
                      SubSeq(<<[op |-> "metadata", arg |-> UriRest, locale |-> "en"]>>, 1, n),
                      1, [rest |-> "ok", sparql |-> "up", ver |-> 1])
    /\ cache_enabled = TRUE
    /\ calls = <<>>
    /\ env = [corrupt |-> 0, changes |-> 0]
    /\ wr = NoStore

SpecRefresh == InitRefresh /\ [][NextRefresh]_vars

\* URIs that differ in the scheme, in a character that the sanitization
\* replaces, in one that it removes, and after more characters than a key
\* keeps.
UriRestHttp == "http://data.europa.eu/data/datasets/0a1b2c3d-aaaa-bbbb-cccc-0123456789ab"
UriSlash == "https://data.example/set/air"
UriColon == "https://data.example/set:air"
UriPercent == "https://data.example/set/a%ir"
LongPath ==
    "https://data.example/catalogue/environment/air-quality/measurements/stations/hourly/ozone/validated/europe/north/region-0001/series-0001/year-2024/file-"
UriLongA == LongPath \o "a"
UriLongB == LongPath \o "b"
KeySamples ==
    {UriRest, UriRestHttp, UriSlash, UriColon, UriPercent, UriLongA, UriLongB}

\* The file names get_dataset_metadata (lines 515-523, 570) and
\* get_dataset_content (lines 1393-1395) derive from a dataset URI and from
\* a download URL.
KeyFiles(kind, uri) ==
    IF kind = "metadata"
    THEN {_sanitize_filename("metadata_" \o uri) \o "_rest_en.json",
          _sanitize_filename("metadata_" \o uri) \o "_sparql.json"}
    ELSE {_sanitize_filename("content_" \o uri) \o ".content",
          _sanitize_filename("content_" \o uri) \o ".content.meta"}

\* The derivation of the file names of the two requests of the instance.
DeriveKeys(kind) ==
    /\ Len(calls) < MaxCalls
    /\ calls' = Append(calls,
           [op |-> "keys", kind |-> kind, a |-> server.a, b |-> server.b,
            files_a |-> KeyFiles(kind, server.a),
            files_b |-> KeyFiles(kind, server.b)])
    /\ UNCHANGED <<now, fs, server, cache_enabled, env, wr>>

NextKeys == \E kind \in {"metadata", "content"} : DeriveKeys(kind)

InitKeys == InitWith([a : KeySamples, b : KeySamples])

SpecKeys == InitKeys /\ [][NextKeys]_vars

\* Bodies a file server may serve: text with line ends of the three kinds,
\* text with a type in capitals, and bytes.
ServedSamples ==
    {[body |-> "a,b\n1,2\n", content_type |-> "text/csv"],
     [body |-> "a,b\r\n1,2\r\n", content_type |-> "text/csv"],
     [body |-> "a\rb", content_type |-> "Text/Plain; charset=UTF-8"],
     [body |-> "PK\r\n01", content_type |-> "application/zip"],
     [body |-> "", content_type |-> "application/json"]}

\* The endpoints all answer, and the file server serves one of the bodies.
RoundTripServerStates ==
    {[rest |-> "ok", sparql |-> "up", ver |-> 1, download |-> "ok",
      body |-> b.body, content_type |-> b.content_type] : b \in ServedSamples}

\* Content calls that download a body and content calls served from the
\* entry a download wrote.
NextRoundTrip ==
    \/ \E force \in BOOLEAN : GetDatasetContent(UriRest, force)
    \/ Tick
    \/ DownloadChange

InitRoundTrip == InitWith(RoundTripServerStates)

SpecRoundTrip == InitRoundTrip /\ [][NextRoundTrip]_vars

\* The public operations of an instance constructed with cache_enabled=False.
NextDisabled ==
    \/ \E u \in {UriRest, NoUri} : ClearCache(u, {})
    \/ \E u \in DatasetURIs, force \in BOOLEAN : GetDatasetMetadata(u, force, "en")
    \/ SearchDatasets("air")
    \/ \E force \in BOOLEAN : GetDatasetContent(UriRest, force)

\* The instance is given the directory of an earlier session that had its
\* cache enabled and made the first calls of PriorSession, or none.
InitDisabled ==
    /\ now = StartTime
    /\ server \in ClearServerStates
    /\ \E n \in 0..Len(PriorSession) :
          fs = LeftBy([fs |-> [p \in {} |-> Damaged("garbage", "missing")],
                       now |-> StartTime, enabled |-> TRUE, log |-> <<>>],
                      SubSeq(PriorSession, 1, n), 1, server)
    /\ cache_enabled = FALSE
    /\ calls = <<>>
    /\ env = [corrupt |-> 0, changes |-> 0]
    /\ wr = NoStore

SpecDisabled == InitDisabled /\ [][NextDisabled]_vars

-----------------------------------------------------------------------------
(* A store followed step by step.  The calls above take a store as one     *)
(* step; here the steps of the three stores are taken one at a time: the   *)
(* open of the temporary file, the write of the payload, the os.replace.   *)
(* Between any two the process may be killed, or the step may raise.       *)
(* `wr` is the store in progress, or the last one when none is:            *)
(*   plan    the files to write, in order, as [path, entry]                *)
(*   i, pc   the file being written and the step to take next              *)
(*   before  the directory when the store began                            *)
(*   n       the stores begun so far                                       *)

FileToWrite(path, entry) == [path |-> path, entry |-> entry]

\* The files a store of `kind` writes at time t for the data in version
\* ver: one for the result of a SPARQL query (lines 136-152), one for a
\* metadata record (lines 627-642), the content and then its sidecar for a
\* download (lines 1530-1545).
StorePlan(kind, ver, t) ==
    CASE kind = "sparql" ->
            <<FileToWrite(SubQueryCachePath(UriRest, "modified"),
                  Entry(SparqlAnswer([rest |-> "ok", sparql |-> "up", ver |-> ver],
                                     UriRest, "modified").body, t))>>
      [] kind = "metadata" ->
            <<FileToWrite(RestCachePath(UriRest, "en"),
                  Entry(CleanTopLevel(RestGraphMetadata(UriRest, "en", ver)), t))>>
      [] kind = "content" ->
            <<FileToWrite(ContentPath, ContentFile(ContentBody(ver))),
              FileToWrite(SidecarPath,
                  Entry(ContentMetadata(JStr("CSV"), ContentBody(ver), DownloadUrl,
                            CleanTopLevel(RestGraphMetadata(UriRest, "en", ver))), t))>>

StoreKinds == {"sparql", "metadata", "content"}

\* The payload is ready and its timestamp taken: the store begins.
BeginStore(kind, ver) ==
    /\ ~wr.active
    /\ wr.n < MaxCalls
    /\ cache_enabled
    /\ wr' = [active |-> TRUE, n |-> wr.n + 1, kind |-> kind,
              plan |-> StorePlan(kind, ver, now), i |-> 1, pc |-> "open",
              before |-> fs]
    /\ UNCHANGED <<now, fs, server, cache_enabled, calls, env>>

\* with open(temp_file, "w") as f: the temporary file exists, empty
OpenTemp ==
    /\ wr.active /\ wr.pc = "open"
    /\ fs' = OpenForWrite(fs, TempFile(wr.plan[wr.i].path))
    /\ wr' = [wr EXCEPT !.pc = "write"]
    /\ UNCHANGED <<now, server, cache_enabled, calls, env>>

\* json.dump / f.write, to the close of the file: until then the temporary
\* file holds a part of the text
WriteTemp ==
    /\ wr.active /\ wr.pc = "write"
    /\ fs' = DumpAndClose(fs, TempFile(wr.plan[wr.i].path), wr.plan[wr.i].entry)
    /\ wr' = [wr EXCEPT !.pc = "replace"]
    /\ UNCHANGED <<now, server, cache_enabled, calls, env>>

\* os.replace(temp_file, cache_path), and on to the next file if there is one
ReplaceTemp ==
    /\ wr.active /\ wr.pc = "replace"
    /\ fs' = OsReplace(fs, TempFile(wr.plan[wr.i].path), wr.plan[wr.i].path)
    /\ wr' = IF wr.i < Len(wr.plan)
             THEN [wr EXCEPT !.i = @ + 1, !.pc = "open"]
             ELSE [wr EXCEPT !.active = FALSE, !.pc = "done"]
    /\ UNCHANGED <<now, server, cache_enabled, calls, env>>

\* The process is killed: the files stay as they are.
Crash ==
    /\ wr.active
    /\ wr' = [wr EXCEPT !.active = FALSE]
    /\ UNCHANGED <<now, fs, server, cache_enabled, calls, env>>

\* os.remove(path) if os.path.exists(path)
RemoveIfExists(files, path) == IF path \in DOMAIN files THEN Remove(files, path) ELSE files

\* The write raises.  An IOError is logged and the files stay (lines 149,
\* 639, 1548).  Another exception leaves the stores of one file as they are
\* and has the content store remove temp_content_file and then
\* temp_meta_file (lines 1550-1561), a name not yet bound while the content
\* is being written: the NameError ends the cleanup after the first removal.
WriteRaises(exc) ==
    /\ wr.active /\ wr.pc = "write"
    /\ fs' = IF exc = "other" /\ wr.kind = "content"
             THEN IF wr.i = 1
                  THEN RemoveIfExists(fs, TempFile(ContentPath))
                  ELSE RemoveIfExists(RemoveIfExists(fs, TempFile(ContentPath)),
                                      TempFile(SidecarPath))
             ELSE fs
    /\ wr' = [wr EXCEPT !.active = FALSE]
    /\ UNCHANGED <<now, server, cache_enabled, calls, env>>

\* Time passes between two stores.
TickStore ==
    /\ ~wr.active
    /\ wr.n < MaxCalls
    /\ now < StartTime + MaxTicks
    /\ now' = now + 1
    /\ UNCHANGED <<fs, server, cache_enabled, calls, env, wr>>

NextStore ==
    \/ \E kind \in StoreKinds, ver \in Versions : BeginStore(kind, ver)
    \/ OpenTemp
    \/ WriteTemp
    \/ ReplaceTemp
    \/ Crash
    \/ \E exc \in {"io", "other"} : WriteRaises(exc)
    \/ TickStore

InitStore == InitWith({s \in ServerStates : s.ver = 1 /\ s.rest = "ok" /\ s.sparql = "up"})

SpecStore == InitStore /\ [][NextStore]_vars

-----------------------------------------------------------------------------
(* Two resolutions storing the same metadata entry with their steps        *)
(* interleaved: two processes, or two instances, on one cache directory.   *)
(* Both write to cache_to_use + ".tmp" (line 631).  An open file is a      *)
(* handle on the file itself, not on its name: it follows the file through *)
(* an os.replace.  Here `wr` is                                            *)
(*   w[x]   writer x: the step to take next (pc), its payload (entry) and  *)
(*          the length of its text (size), where the file it has open is   *)
(*          now (fd: "temp", "canon", "unlinked", or "none"), the stores   *)
(*          it finished (n) and whether its os.replace failed (failed)     *)
(*   text   the length of the text in the temporary and the canonical file *)
(*   payloads  the entries the stores begun so far set out to write        *)

RaceWriters == {1, 2}
RacePath == RestCachePath(UriRest, "en")
TextSizes == {1, 2}

\* Where the file of a handle is after os.replace(temp_file, cache_path).
AfterReplace(fd) ==
    CASE fd = "temp" -> "canon"
      [] fd = "canon" -> "unlinked"
      [] OTHER -> fd

\* f.write of `size` characters at the start of a file that holds `held`
\* characters of `old`: a shorter text leaves the tail of the longer one
\* behind it, and the whole no longer parses.
WriteOver(old, held, entry, size) ==
    IF size >= held THEN entry ELSE Damaged("garbage", "missing")

\* final_metadata is there and time.time() read (lines 627-629)
RaceBegin(x, ver, size) ==
    /\ wr.w[x].pc = "idle"
    /\ wr.w[x].n < MaxCalls
    /\ LET entry == Entry(CleanTopLevel(RestGraphMetadata(UriRest, "en", ver)), now)
       IN wr' = [wr EXCEPT !.w[x].pc = "open", !.w[x].entry = entry, !.w[x].size = size,
                           !.payloads = @ \cup {entry}]
    /\ UNCHANGED <<now, fs, server, cache_enabled, calls, env>>

\* with open(temp_file, "w", encoding="utf-8") as f (line 632): the file of
\* that name is emptied, or made
RaceOpen(x) ==
    /\ wr.w[x].pc = "open"
    /\ fs' = OpenForWrite(fs, TempFile(RacePath))
    /\ wr' = [wr EXCEPT !.w[x].pc = "write", !.w[x].fd = "temp", !.text.temp = 0]
    /\ UNCHANGED <<now, server, cache_enabled, calls, env>>

\* json.dump(metadata_to_cache, f) to the close of the file (line 633): the
\* text goes to the file the handle is on, wherever that file is by now
RaceWrite(x) ==
    /\ wr.w[x].pc = "write"
    /\ LET me == wr.w[x]
           path == IF me.fd = "temp" THEN TempFile(RacePath) ELSE RacePath
       IN IF me.fd = "unlinked"
          THEN /\ fs' = fs
               /\ wr' = [wr EXCEPT !.w[x].pc = "replace", !.w[x].fd = "none"]
          ELSE /\ fs' = [fs EXCEPT ![path] = WriteOver(@, wr.text[me.fd], me.entry, me.size)]
               /\ wr' = [wr EXCEPT !.w[x].pc = "replace", !.w[x].fd = "none",
                                   !.text[me.fd] = IF me.size >= @ THEN me.size ELSE @]
    /\ UNCHANGED <<now, server, cache_enabled, calls, env>>

\* os.replace(temp_file, cache_to_use) (line 634).  Without a file of that
\* name it raises FileNotFoundError, an OSError, which `except IOError`
\* catches and logs (lines 638-641).
RaceReplace(x) ==
    /\ wr.w[x].pc = "replace"
    /\ IF TempFile(RacePath) \in DOMAIN fs
       THEN /\ fs' = OsReplace(fs, TempFile(RacePath), RacePath)
            /\ wr' = [wr EXCEPT
                        !.w = [y \in RaceWriters |->
                                 IF y = x
                                 THEN [wr.w[y] EXCEPT !.pc = "idle", !.n = @ + 1]
                                 ELSE [wr.w[y] EXCEPT !.fd = AfterReplace(@)]],
                        !.text = [temp |-> 0, canon |-> wr.text.temp]]
       ELSE /\ fs' = fs
            /\ wr' = [wr EXCEPT !.w[x].pc = "idle", !.w[x].n = @ + 1,
                                !.w[x].failed = TRUE]
    /\ UNCHANGED <<now, server, cache_enabled, calls, env>>

NextRace ==
    \/ \E x \in RaceWriters, ver \in Versions, size \in TextSizes : RaceBegin(x, ver, size)
    \/ \E x \in RaceWriters : RaceOpen(x)
    \/ \E x \in RaceWriters : RaceWrite(x)
    \/ \E x \in RaceWriters : RaceReplace(x)

InitRace ==
    /\ now = StartTime
    /\ fs = [p \in {} |-> Damaged("garbage", "missing")]
    /\ server \in {s \in ServerStates : s.ver = 1 /\ s.rest = "ok" /\ s.sparql = "up"}
    /\ cache_enabled = TRUE
    /\ calls = <<>>
    /\ env = [corrupt |-> 0, changes |-> 0]
    /\ wr = [w |-> [x \in RaceWriters |->
                      [pc |-> "idle", entry |-> Damaged("partial", "missing"), size |-> 0,
                       fd |-> "none", n |-> 0, failed |-> FALSE]],
             text |-> [temp |-> 0, canon |-> 0],
             payloads |-> {}]

SpecRace == InitRace /\ [][NextRace]_vars

-----------------------------------------------------------------------------
(* BraveSearchTool (brave_search_tool.py).  The tool keeps its API key;    *)
(* here `wr` is [api_key], and `server` is the search API: how it answers  *)
(* (api) and the JSON object of its answer (body).                         *)

API_COUNT_LIMIT == 20
ApiEndpoint == "https://api.search.brave.com/res/v1/web/search"

\* item.get(k, "")
GetOrEmpty(item, k) == IF k \in DOMAIN item THEN item[k] ELSE ""

\* BraveSearchTool.format_results
format_results(results) ==
    IF "web" \notin DOMAIN results \/ "results" \notin DOMAIN results["web"].d
    THEN <<>>
    ELSE LET items == results["web"].d["results"].l
         IN [i \in DOMAIN items |->
                [title |-> GetOrEmpty(items[i], "title"),
                 url |-> GetOrEmpty(items[i], "url"),
                 description |-> GetOrEmpty(items[i], "description")]]

\* What a call of forward comes to: the exception it raises ("none" when it
\* returns), the requests it made and the list it returns.
ForwardOutcome(raised, requests, result) ==
    [raised |-> raised, requests |-> requests, result |-> result]

\* Variant of forward defined below it: the count goes out as requested.
ForwardUnclamped(api_key, query, count, country, search_lang, srv, json_error) ==
    IF ~Truthy(api_key) THEN ForwardOutcome("ValueError", <<>>, <<>>)
    ELSE IF count.t # "num" THEN ForwardOutcome("TypeError", <<>>, <<>>)
    ELSE LET params == [q |-> query, count |-> count.n,
                        country |-> country, search_lang |-> search_lang]
             sent == <<[url |-> ApiEndpoint, token |-> api_key.s, params |-> params]>>
         IN CASE srv.api \in {"timeout", "http_error"} ->
                     ForwardOutcome("RuntimeError", sent, <<>>)
              [] srv.api = "bad_json" ->
                     ForwardOutcome(IF json_error = "RequestException"
                                    THEN "RuntimeError" ELSE json_error, sent, <<>>)
              [] OTHER -> ForwardOutcome("none", sent, format_results(srv.body))

\* BraveSearchTool.forward.  A count of None makes min(count, 20) raise
\* TypeError.  json_error is what response.json() raises on a body that is
\* no JSON: a RequestException in the newer releases of requests, a
\* ValueError in the older ones.
forward(api_key, query, count, country, search_lang, srv, json_error) ==
    IF ~Truthy(api_key) THEN ForwardOutcome("ValueError", <<>>, <<>>)
    ELSE IF count.t # "num" THEN ForwardOutcome("TypeError", <<>>, <<>>)
    ELSE LET params == [q |-> query, count |-> Min(count.n, API_COUNT_LIMIT),
                        country |-> country, search_lang |-> search_lang]
             sent == <<[url |-> ApiEndpoint, token |-> api_key.s, params |-> params]>>
         IN CASE srv.api \in {"timeout", "http_error"} ->
                     ForwardOutcome("RuntimeError", sent, <<>>)
              [] srv.api = "bad_json" ->
                     ForwardOutcome(IF json_error = "RequestException"
                                    THEN "RuntimeError" ELSE json_error, sent, <<>>)
              [] OTHER -> ForwardOutcome("none", sent, format_results(srv.body))

\* The counts asked for: none, the default, the limit, more than the limit.
RequestedCounts ==
    {JNull, JNum(10), JNum(API_COUNT_LIMIT), JNum(API_COUNT_LIMIT + 1),
     JNum(2 * API_COUNT_LIMIT + 10)}

\* The answers of the API: no "web", a "web" without "results", no results,
\* and two results of which the second has no description.
BraveItem == [title |-> "Air quality", url |-> "http://a.example", description |-> "about air"]
BraveItemBare == [title |-> "Ozone", url |-> "http://o.example"]
BraveBodies ==
    {[type |-> JStr("search")],
     [type |-> JStr("search"), web |-> JDict([type |-> JStr("search")])],
     [web |-> JDict([results |-> JList(<<>>)])],
     [web |-> JDict([results |-> JList(<<BraveItem, BraveItemBare>>)])]}
BraveStates == [api : {"ok", "timeout", "http_error", "bad_json"}, body : BraveBodies]

\* How the API answers after a change of its state.
NextApi(api) ==
    CASE api = "ok" -> "timeout"
      [] api = "timeout" -> "http_error"
      [] api = "http_error" -> "bad_json"
      [] OTHER -> "ok"

\* The keys __init__ may end with (line 49): none, an empty one, a key.
ApiKeys == {JNull, JStr(""), JStr("key")}

\* A call of BraveSearchTool.forward
Forward(query, count, json_error) ==
    /\ Len(calls) < MaxCalls
    /\ LET r == forward(wr.api_key, query, count, "US", "en", server, json_error)
       IN calls' = Append(calls, [op |-> "forward", query |-> query, count |-> count,
                                  api_key |-> wr.api_key, srv |-> server,
                                  raised |-> r.raised, requests |-> r.requests,
                                  result |-> r.result])
    /\ UNCHANGED <<now, fs, server, cache_enabled, env, wr>>

\* BraveSearchTool.configure: the key is kept (and written to the config
\* file, which this instance does not read again).
Configure(api_key) ==
    /\ wr.api_key # api_key
    /\ wr' = [wr EXCEPT !.api_key = api_key]
    /\ UNCHANGED <<now, fs, server, cache_enabled, calls, env>>

\* The API answers differently from now on.
ApiChange ==
    /\ env.changes < MaxServerChanges
    /\ server' = [server EXCEPT !.api = NextApi(@)]
    /\ env' = [env EXCEPT !.changes = @ + 1]
    /\ UNCHANGED <<now, fs, cache_enabled, calls, wr>>

NextBrave ==
    \/ \E count \in RequestedCounts, json_error \in {"RequestException", "ValueError"} :
          Forward("air", count, json_error)
    \/ Configure(JStr("key"))
    \/ ApiChange

InitBrave ==
    /\ now = StartTime
    /\ fs = [p \in {} |-> Damaged("garbage", "missing")]
    /\ server \in BraveStates
    /\ cache_enabled = FALSE
    /\ calls = <<>>
    /\ env = [corrupt |-> 0, changes |-> 0]
    /\ wr \in [api_key : ApiKeys]

SpecBrave == InitBrave /\ [][NextBrave]_vars

-----------------------------------------------------------------------------
(* Properties of the metadata resolver.                                    *)

\* The last call made, and the call a step makes.  Every call is the last
\* call of the state it leads to, so a property of the last call in every
\* reachable state is a property of every call.
LastCall == calls[Len(calls)]
NewCall == calls'[Len(calls')]
IsCallStep == calls' # calls

\* An intact entry that a lookup at time t finds younger than the TTL.
FreshEntry(files, path, t) ==
    /\ path \in DOMAIN files
    /\ files[path].kind = "object" /\ files[path].tsk = "num"
    /\ t - files[path].ts < CacheTTL

\* An intact entry that a lookup at time t finds as old as the TTL or older.
ExpiredEntry(files, path, t) ==
    /\ path \in DOMAIN files
    /\ files[path].kind = "object" /\ files[path].tsk = "num"
    /\ t - files[path].ts >= CacheTTL

\* The REST request of a call for this URI is made and answered with data.
RestSucceeds(dataset_uri, srv) == UuidOf[dataset_uri] # NoUuid /\ srv.rest = "ok"

IsNet(e) == e.ev = "net"
IsRestNet(e) == e.ev = "net" /\ startswith(e.what, "rest ")
IsSparqlNet(e) == e.ev = "net" /\ startswith(e.what, "sparql ")
NetEvents(log) == {i \in DOMAIN log : IsNet(log[i])}
SparqlNetNames(log) == {log[i].what : i \in {j \in DOMAIN log : IsSparqlNet(log[j])}}

\* The step of the resolver an event of a call belongs to: 1 the lookup in
\* the cache of the REST path, 2 the REST extraction, 3 the lookup in the
\* cache of the SPARQL path, 4 the SPARQL fallback (its queries and their
\* own cache entries), 5 the store of the record the call returns.
StepOf(e, dataset_uri, locale) ==
    IF e.what = RestCachePath(dataset_uri, locale) /\ e.ev \in {"read", "remove", "hit"}
    THEN 1
    ELSE IF IsRestNet(e) THEN 2
    ELSE IF e.what = SparqlCachePath(dataset_uri) /\ e.ev \in {"read", "remove", "hit"}
    THEN 3
    ELSE IF e.ev = "store" /\ e.what \in {RestCachePath(dataset_uri, locale),
                                          SparqlCachePath(dataset_uri)}
    THEN 5
    ELSE 4

Unchanged(path) ==
    IF path \in DOMAIN fs THEN path \in DOMAIN fs' /\ fs'[path] = fs[path]
    ELSE path \notin DOMAIN fs'

\* C1: a call without force_refresh, cache on, takes its steps in the order
\* REST cache lookup, REST extraction, SPARQL cache lookup, SPARQL fallback,
\* a later step only after every earlier one missed or failed: a fresh REST
\* cache entry is returned with nothing else done; a successful REST
\* extraction is followed by no SPARQL cache lookup and no SPARQL query; and
\* the record is stored under the key of the path that produced it, the key
\* of the other path being left as it was.
C1_StepOrder ==
    [][IsCallStep /\ ~NewCall.force /\ cache_enabled =>
        LET c == NewCall
            rest_path == RestCachePath(c.uri, c.locale)
            sparql_path == SparqlCachePath(c.uri)
            step == [i \in DOMAIN c.log |-> StepOf(c.log[i], c.uri, c.locale)]
            Has(k) == \E i \in DOMAIN step : step[i] = k
            rest_hit == FreshEntry(fs, rest_path, now)
            rest_ok == RestSucceeds(c.uri, server)
            sparql_hit == FreshEntry(fs, sparql_path, now)
        IN  /\ \A i, j \in DOMAIN step : i < j => step[i] <= step[j]
            /\ rest_hit =>
                  /\ \A i \in DOMAIN step : step[i] = 1
                  /\ c.result = fs[rest_path].data
                  /\ fs' = fs
            /\ Has(2) \/ Has(3) \/ Has(4) => ~rest_hit
            /\ Has(3) \/ Has(4) => ~rest_ok
            /\ Has(4) => ~sparql_hit
            /\ ~rest_hit /\ rest_ok =>
                  /\ ~Has(3) /\ ~Has(4)
                  /\ fs'[rest_path] = Entry(c.result, now)
                  /\ Unchanged(sparql_path)
            /\ ~rest_hit /\ ~rest_ok /\ sparql_hit =>
                  /\ ~Has(4)
                  /\ c.result = fs[sparql_path].data
                  /\ fs' = fs
            /\ ~rest_hit /\ ~rest_ok /\ ~sparql_hit /\ ~c.raised
                  /\ "error" \notin DOMAIN c.result =>
                  /\ Has(4)
                  /\ sparql_path \in DOMAIN fs'
                  /\ fs'[sparql_path] = Entry(c.result, now)
                  /\ Unchanged(rest_path)
    ]_vars

\* A second call served by the cache of the SPARQL path, after a REST
\* request that failed, the first call having been resolved by the fallback.
C1_Witness ==
    /\ Len(calls) = 2
    /\ ~calls[1].force /\ calls[1].source = "sparql"
    /\ ~calls[2].force /\ calls[2].source = "sparql_cache"
    /\ \E i \in DOMAIN calls[2].log : IsRestNet(calls[2].log[i])

\* The SPARQL fallback ran in call c and every one of its eleven queries
\* went to the endpoint and came back as an error.
EveryQueryFailed(c) ==
    /\ c.fallback # "none"
    /\ c.srv.sparql = "down"
    /\ Cardinality(SparqlNetNames(c.log)) = Cardinality(SubQueryNames)

\* The REST extraction of call c failed.
RestFailed(c) == ~RestSucceeds(c.uri, c.srv)

MetadataPaths(c) == {RestCachePath(c.uri, c.locale), SparqlCachePath(c.uri)}
StoresMetadata(c) ==
    \E i \in DOMAIN c.log : c.log[i].ev = "store" /\ c.log[i].what \in MetadataPaths(c)

\* C2: when the REST extraction fails and every property query and the
\* distribution query of the fallback fail too, the call returns a record
\* with the key "error" and creates or modifies no metadata cache file.
C2_AllFailedReturnsError ==
    calls # <<>> =>
        LET c == LastCall
        IN  RestFailed(c) /\ EveryQueryFailed(c) /\ ~c.raised =>
               /\ "error" \in DOMAIN c.result
               /\ ~StoresMetadata(c)
               /\ (Len(calls) = 1 => \A p \in MetadataPaths(c) : p \notin DOMAIN fs)

\* C3: when every query of the SPARQL fallback came back as an error, the
\* fallback returns its consolidated error record (and the resolver then
\* reports failure) instead of a record of empty fields.
C3_FallbackConsolidatedError ==
    calls # <<>> /\ EveryQueryFailed(LastCall) => LastCall.fallback = "error"

\* Two calls in a row for one URI and locale, neither with force_refresh,
\* the first resolved by a fetch whose record it stored, the second made
\* while that entry is younger than the TTL.
RepeatWithinTTL(i) ==
    /\ i + 1 \in DOMAIN calls
    /\ calls[i + 1].uri = calls[i].uri /\ calls[i + 1].locale = calls[i].locale
    /\ ~calls[i].force /\ ~calls[i + 1].force
    /\ ~calls[i].raised /\ calls[i].source \in {"rest", "sparql"}
    /\ StoresMetadata(calls[i])
    /\ calls[i + 1].at - calls[i].at < CacheTTL

\* C4: with the cache on and the endpoints answering as before, a second
\* call for the same URI and locale, made without force_refresh within the
\* TTL of the entry the first call stored, returns the record the first call
\* returned, whether the first was resolved by REST or by SPARQL.
C4_Idempotent ==
    LET i == Len(calls) - 1
    IN  i >= 1 /\ RepeatWithinTTL(i) /\ calls[i + 1].srv = calls[i].srv =>
            /\ ~calls[i + 1].raised
            /\ calls[i + 1].result = calls[i].result

\* Both paths: a REST-resolved first call followed by its repeat, and a
\* SPARQL-resolved one, the clock having advanced between the two calls.
C4_Witness ==
    /\ Len(calls) = 2 /\ RepeatWithinTTL(1) /\ calls[2].srv = calls[1].srv
    /\ calls[1].source = "sparql"
    /\ calls[2].at > calls[1].at

\* A call that returned a successful record and stored it, followed by a
\* call for the same URI and locale without force_refresh within the TTL.
HitAfterStore(i) ==
    /\ i + 1 \in DOMAIN calls
    /\ calls[i + 1].uri = calls[i].uri /\ calls[i + 1].locale = calls[i].locale
    /\ ~calls[i + 1].force
    /\ ~calls[i].raised /\ "error" \notin DOMAIN calls[i].result
    /\ StoresMetadata(calls[i])
    /\ calls[i + 1].at - calls[i].at < CacheTTL

FetchedAfresh(c) ==
    get_dataset_metadata([fs |-> [p \in {} |-> Damaged("garbage", "missing")],
                          now |-> c.at, enabled |-> TRUE, log |-> <<>>],
                         c.uri, TRUE, c.locale, c.srv)

\* C6: a call with force_refresh reads no cache entry, neither of the
\* metadata caches nor of the sub-queries; its record is what the requests
\* of that call produce: the REST request when the URI holds a UUID, and
\* all eleven SPARQL queries when the fallback runs.
C6_ForceRefreshBypassesCaches ==
    calls # <<>> =>
        LET c == LastCall
        IN  c.force =>
               /\ ~c.raised
               /\ \A k \in DOMAIN c.log : c.log[k].ev \notin {"read", "remove"}
               /\ UuidOf[c.uri] # NoUuid =>
                      \E k \in DOMAIN c.log : IsRestNet(c.log[k])
               /\ c.fallback # "none" =>
                      Cardinality(SparqlNetNames(c.log)) = Cardinality(SubQueryNames)
               /\ c.result = FetchedAfresh(c).result

\* A forced call over a directory that holds fresh entries of an earlier
\* call, with the catalogue updated in between: it returns the new data.
C6_Witness ==
    /\ Len(calls) = 2
    /\ calls[2].force /\ calls[2].uri = calls[1].uri
    /\ calls[1].source = "sparql" /\ calls[2].source = "sparql"
    /\ calls[2].at - calls[1].at < CacheTTL
    /\ calls[2].srv.ver # calls[1].srv.ver
    /\ calls[2].result # calls[1].result

HasEvent(log, ev, path) == \E k \in DOMAIN log : log[k] = Event(ev, path)

\* C8: a lookup that finds an entry expired by TTL neither deletes nor
\* changes the file; the file is as it was when the call returns, unless the
\* call stored a whole new entry over it, and that also when the fetch that
\* follows the lookup fails.
C8_ExpiredLookupKeepsFile ==
    [][IsCallStep =>
        \A p \in DOMAIN fs :
            ExpiredEntry(fs, p, now) /\ HasEvent(NewCall.log, "read", p) =>
               /\ ~HasEvent(NewCall.log, "remove", p)
               /\ p \in DOMAIN fs'
               /\ IF HasEvent(NewCall.log, "store", p)
                  THEN /\ fs'[p].kind = "object" /\ fs'[p].tsk = "num"
                       /\ fs'[p].ts = now
                  ELSE fs'[p] = fs[p]
    ]_vars

\* The second call found the entry of the REST path expired, the REST
\* request and every SPARQL query then failed, and the expired entries are
\* still there, as the first call wrote them.
C8_Witness ==
    /\ Len(calls) = 2
    /\ calls[1].source = "rest"
    /\ LET c == calls[2]
           p == RestCachePath(c.uri, c.locale)
       IN  /\ HasEvent(c.log, "read", p)
           /\ ~HasEvent(c.log, "store", p)
           /\ c.srv.rest = "down"
           /\ p \in DOMAIN fs /\ fs[p] = Entry(calls[1].result, calls[1].at)
           /\ c.at - fs[p].ts >= CacheTTL

\* A file that does not parse, parses to something that is no JSON object,
\* or holds a timestamp that is no number.
WrongShape(f) == f.kind \in {"garbage", "not_object"} \/ f.tsk = "bad"

\* C9: a cache file that cannot be parsed or has the wrong shape is a miss:
\* the lookup raises nothing to the caller, the file is removed (or replaced
\* by the entry of the fresh fetch), and the fetch is made.
C9_DamagedEntryIsMiss ==
    [][IsCallStep =>
        \A p \in DOMAIN fs :
            WrongShape(fs[p]) /\ HasEvent(NewCall.log, "read", p) =>
               /\ ~NewCall.raised
               /\ HasEvent(NewCall.log, "remove", p)
               /\ NetEvents(NewCall.log) # {}
    ]_vars

-----------------------------------------------------------------------------
(* Properties of the cache entries, in calls of get_dataset_content: each  *)
(* makes a metadata call, which may run the SPARQL queries, so that the    *)
(* three kinds of entry are looked up.                                     *)

\* An entry stored whole, whose timestamp a lookup can compare: the lookup
\* at time t finds it young when it has a timestamp less than the TTL ago.
Comparable(f) == f.kind = "object" /\ f.tsk # "bad"
Young(f, t) == f.tsk = "num" /\ t - f.ts < CacheTTL

\* The fetch that replaces the entry at `path` is made in call c, whose
\* lookup of the entry is event i of its log: the download for a sidecar,
\* the REST request for the record of the REST path, the fallback extraction
\* for the record of the SPARQL path, the request to the SPARQL endpoint for
\* the result of a query.  Nothing comes between the lookup and the request.
FetchFollows(c, i, path) ==
    IF path = SparqlCachePath(c.uri) THEN c.fallback # "none"
    ELSE /\ i < Len(c.log)
         /\ IF path = SidecarPath
            THEN c.log[i + 1] = Event("net", "download " \o DownloadUrl)
            ELSE IF path = RestCachePath(c.uri, c.locale)
            THEN IsRestNet(c.log[i + 1])
            ELSE IsSparqlNet(c.log[i + 1])

\* C7: a lookup returns an entry (the result of a SPARQL query, a metadata
\* record, the content of a sidecar) only if the entry was written less than
\* cache_ttl before; when it is as old as that or older, and when it has no
\* write timestamp, the lookup returns nothing and the fetch is made afresh.
C7_TTLValidity ==
    [][IsCallStep =>
        \A i \in DOMAIN NewCall.log :
            LET path == NewCall.log[i].what
            IN  /\ NewCall.log[i].ev = "read"
                /\ path \in DOMAIN fs
                /\ Comparable(fs[path])
                => /\ HasEvent(NewCall.log, "hit", path) => Young(fs[path], now)
                   /\ ~Young(fs[path], now) =>
                         /\ ~HasEvent(NewCall.log, "hit", path)
                         /\ FetchFollows(NewCall, i, path)
    ]_vars

\* The first call downloaded the content and stored it; the second, made
\* when the TTL had passed, read the sidecar, did not return the stored
\* content and downloaded it again.
C7_Witness ==
    /\ Len(calls) = 2
    /\ HasEvent(calls[1].log, "store", SidecarPath)
    /\ calls[2].at - calls[1].at >= CacheTTL
    /\ HasEvent(calls[2].log, "read", SidecarPath)
    /\ ~HasEvent(calls[2].log, "hit", SidecarPath)
    /\ calls[2].source = "download"
    /\ SidecarPath \in DOMAIN fs /\ fs[SidecarPath].ts = calls[2].at

-----------------------------------------------------------------------------
(* Properties of a store.                                                  *)

\* The entry's own file after a store of it began: not there, as it was
\* before the store, or as the store writes it.
AbsentOldOrNew(file) ==
    \/ file.path \notin DOMAIN fs
    \/ fs[file.path] = file.entry
    \/ file.path \in DOMAIN wr.before /\ fs[file.path] = wr.before[file.path]

\* C10: whatever step a store has reached, and also when the process was
\* killed or the write raised after any of them, the file at the path of an
\* entry is absent, the whole entry that was there before or the whole new
\* entry; a file with a part of a payload is at a temporary path only.
C10_AtomicStore ==
    /\ \A k \in DOMAIN wr.plan : AbsentOldOrNew(wr.plan[k])
    /\ \A p \in DOMAIN fs : fs[p].kind = "partial" => endswith(p, ".tmp")
    /\ \A k \in DOMAIN wr.plan :
          /\ ~endswith(wr.plan[k].path, ".tmp")
          /\ wr.plan[k].path \in DOMAIN fs => fs[wr.plan[k].path].kind # "partial"

\* The process was killed while it was writing the sidecar of a second
\* download: the temporary file holds a part of the new sidecar, the sidecar
\* is the one of the first download, whole.
C10_Witness ==
    /\ ~wr.active /\ wr.kind = "content" /\ wr.i = 2 /\ wr.pc = "write"
    /\ TempFile(SidecarPath) \in DOMAIN fs
    /\ fs[TempFile(SidecarPath)].kind = "partial"
    /\ SidecarPath \in DOMAIN wr.before
    /\ fs[SidecarPath] = wr.before[SidecarPath]
    /\ fs[SidecarPath] # wr.plan[2].entry
    /\ fs[SidecarPath].kind = "object"

-----------------------------------------------------------------------------
(* Properties of the content cache.                                        *)

\* The metadata record that the metadata call of a content call about to be
\* made resolves.
ResolvedMetadata(dataset_uri, force_refresh) ==
    get_dataset_metadata([fs |-> fs, now |-> now, enabled |-> cache_enabled,
                          log |-> <<>>],
                         dataset_uri, force_refresh, "en", server).result

\* A content call without force_refresh finds the entry of the download
\* whole and younger than the TTL.
FindsYoungContent ==
    /\ IsCallStep /\ NewCall.op = "content" /\ ~NewCall.force
    /\ HasEvent(NewCall.log, "read", SidecarPath)
    /\ ContentPath \in DOMAIN fs
    /\ Comparable(fs[SidecarPath]) /\ Young(fs[SidecarPath], now)

\* C11: the content of an entry whose sidecar holds another dataset_modified
\* than the `modified` of the metadata resolved in the call is not served,
\* though the entry is younger than the TTL, whichever way the two values
\* differ (one of them may be absent); the content is downloaded again.
C11_StaleNeverServed ==
    [][FindsYoungContent
         /\ Get(fs[SidecarPath].data, "dataset_modified")
               # Get(ResolvedMetadata(NewCall.uri, FALSE), "modified")
       => /\ NewCall.source = "download"
          /\ HasEvent(NewCall.log, "net", "download " \o DownloadUrl)
    ]_vars

-----------------------------------------------------------------------------
(* Properties of clear_cache.                                              *)

\* The cache files whose key is derived from a dataset URI: its metadata
\* entries of the REST path, one for each locale, that of the SPARQL path,
\* and the entries of the fallback's sub-queries for it.
DerivedFiles(dataset_uri) ==
    {RestCachePath(dataset_uri, locale) : locale \in Locales}
    \cup {SparqlCachePath(dataset_uri)}
    \cup {SubQueryCachePath(dataset_uri, name) : name \in SubQueryNames}

\* No removal failed in a call with this log.
NoDeletionFailure(log) == ~\E k \in DOMAIN log : log[k].ev = "remove_failed"

\* A step that is a call of clear_cache for a dataset in which no removal
\* fails.
ClearsDataset ==
    /\ IsCallStep /\ NewCall.op = "clear" /\ NewCall.uri # NoUri
    /\ NoDeletionFailure(NewCall.log)

\* A step that is a call of get_dataset_metadata for the dataset that the
\* call before it cleared without a failure.
ResolvesAfterClear ==
    /\ IsCallStep /\ NewCall.op = "metadata" /\ calls # <<>>
    /\ LastCall.op = "clear" /\ LastCall.uri = NewCall.uri
    /\ NoDeletionFailure(LastCall.log)

\* C12: when clear_cache(uri) returns and no removal failed, no cache file
\* derived from the URI remains (no REST entry of any locale, no SPARQL
\* entry, no sub-query entry of the fallback), and the next call of
\* get_dataset_metadata for the URI is served from no cache.
C12_ClearLeavesNoDerivedFile ==
    [][/\ ClearsDataset => DerivedFiles(NewCall.uri) \cap DOMAIN fs' = {}
       /\ ResolvesAfterClear => ~\E k \in DOMAIN NewCall.log : NewCall.log[k].ev = "hit"
    ]_vars

\* The files of a search for "air": the results of the search query and
\* those of the query for the distributions of the datasets found.
SearchFiles ==
    {QueryCachePath(SearchQueryText("air"), "search"),
     QueryCachePath(DistChunkQueryText(UriValues(CatalogueOrder)), "dists_chunk_0")}

\* C13: clear_cache(uri) removes only files whose key is derived from the
\* URI: the files of other datasets, of searches and of downloaded content
\* are in the directory afterwards as they were before, and the call
\* creates no file.
C13_ClearLeavesOtherFiles ==
    [][IsCallStep /\ NewCall.op = "clear" /\ NewCall.uri # NoUri
       => /\ DOMAIN fs' \subseteq DOMAIN fs
          /\ \A path \in DOMAIN fs \ DerivedFiles(NewCall.uri) : Unchanged(path)
    ]_vars

\* A clear for one dataset has removed its metadata entry while the entry
\* of the other dataset, the files of a search and a downloaded content
\* with its sidecar are in the directory.
C13_Witness ==
    /\ calls # <<>> /\ LastCall.op = "clear" /\ LastCall.uri = UriRest
    /\ HasEvent(LastCall.log, "remove", RestCachePath(UriRest, "en"))
    /\ RestCachePath(UriRest, "en") \notin DOMAIN fs
    /\ SparqlCachePath(UriPlain) \in DOMAIN fs
    /\ SubQueryCachePath(UriPlain, "title") \in DOMAIN fs
    /\ SearchFiles \subseteq DOMAIN fs
    /\ {ContentPath, SidecarPath} \subseteq DOMAIN fs

\* The files a call could not remove, by its log.
FailedRemovals(log) == {log[k].what : k \in {i \in DOMAIN log : log[i].ev = "remove_failed"}}

\* C14: clear_cache() returns, without raising, with every file of the
\* directory deleted but those whose deletion failed, whatever calls filled
\* the directory; it has counted the files deleted and the failures.  The
\* directory is empty when no deletion failed.
C14_ClearAllEmptiesDirectory ==
    [][IsCallStep /\ NewCall.op = "clear" /\ NewCall.uri = NoUri
       => /\ ~NewCall.raised
          /\ FailedRemovals(NewCall.log) \subseteq DOMAIN fs
          /\ DOMAIN fs' = FailedRemovals(NewCall.log)
          /\ \A path \in DOMAIN fs' : fs'[path] = fs[path]
          /\ NoDeletionFailure(NewCall.log) => DOMAIN fs' = {}
          /\ HasEvent(NewCall.log, "failed_files",
                      ToString(Cardinality(FailedRemovals(NewCall.log))))
          /\ HasEvent(NewCall.log, "cleared_files",
                      ToString(Cardinality(DOMAIN fs)
                                  - Cardinality(FailedRemovals(NewCall.log))))
    ]_vars

\* A full clear of a directory filled by a search, metadata resolutions of
\* both paths and a content fetch could not delete the metadata entry of
\* the REST path, counted that, and deleted every other file.
C14_Witness ==
    /\ calls # <<>> /\ LastCall.op = "clear" /\ LastCall.uri = NoUri
    /\ DOMAIN fs = {RestCachePath(UriRest, "en")}
    /\ HasEvent(LastCall.log, "failed_files", "1")
    /\ \A path \in SearchFiles \cup {ContentPath, SidecarPath, SparqlCachePath(UriPlain),
                                    SubQueryCachePath(UriPlain, "distributions")} :
          HasEvent(LastCall.log, "remove", path)

-----------------------------------------------------------------------------
(* Properties of the records of get_dataset_metadata.                      *)

\* The last call was get_dataset_metadata and returned a record that is no
\* error record.
ReturnedRecord ==
    /\ calls # <<>> /\ LastCall.op = "metadata"
    /\ ~LastCall.raised /\ "error" \notin DOMAIN LastCall.result

\* C15: for a dataset URI without a UUID-shaped segment get_dataset_metadata
\* makes no REST request and goes the SPARQL path (its cache, or the
\* fallback extractor); every record it returns from that path has
\* `sparql_uri_used` equal to the URI given.
C15_NoUuidGoesSparqlPath ==
    calls # <<>> /\ LastCall.op = "metadata" /\ UuidOf[LastCall.uri] = NoUuid
    => /\ ~\E k \in DOMAIN LastCall.log : IsRestNet(LastCall.log[k])
       /\ ~LastCall.raised
       /\ LastCall.source = "sparql_cache" \/ LastCall.fallback # "none"
       /\ ReturnedRecord
          => /\ LastCall.source \in {"sparql", "sparql_cache"}
             /\ Get(LastCall.result, "sparql_uri_used") = JStr(LastCall.uri)

\* The resolver has returned the record the fallback extracted for the URI
\* without a UUID, having sent SPARQL queries and no REST request.
C15_Witness ==
    /\ ReturnedRecord /\ LastCall.uri = UriPlain
    /\ LastCall.source = "sparql" /\ LastCall.fallback = "record"
    /\ LastCall.result["sparql_uri_used"] = JStr(UriPlain)
    /\ Get(LastCall.result, "title") = JStr("Air quality")
    /\ \E k \in DOMAIN LastCall.log : IsSparqlNet(LastCall.log[k])

\* The cache_key_suffix of the fallback's sub-query `name` for a dataset.
SubQuerySuffix(dataset_uri, name) ==
    IF name = "distributions" THEN "sparql_dist_" \o Sanitized(dataset_uri)
    ELSE "sparql_prop_" \o Sanitized(dataset_uri) \o "_" \o name

\* In the call a step makes, the sub-query `name` of the fallback was sent
\* and failed / was answered, by the endpoint or from the cache, with these
\* rows.
SubQueryFailed(name) ==
    /\ HasEvent(NewCall.log, "net", "sparql " \o SubQuerySuffix(NewCall.uri, name))
    /\ SparqlAnswer(server, NewCall.uri, name).status # "ok"
SubQueryRows(name) ==
    IF HasEvent(NewCall.log, "hit", SubQueryCachePath(NewCall.uri, name))
    THEN BindingsOf(fs[SubQueryCachePath(NewCall.uri, name)].data)
    ELSE Bindings(NewCall.uri, name, server.ver)

\* The value the rows of a property's query give it: the non-empty values
\* of all rows for a multi-valued property, that of the first row otherwise.
PropertyValue(name, rows) ==
    IF name \in MultiValued
    THEN JList(SelectSeq2([i \in DOMAIN rows |-> RowGet(rows[i], "value")], 1))
    ELSE JStr(rows[1]["value"])

\* A step in which the fallback extractor runs, some of its eleven
\* sub-queries fail and some do not.
PartialSuccess ==
    /\ IsCallStep /\ NewCall.op = "metadata" /\ NewCall.fallback # "none"
    /\ \E name \in SubQueryNames : SubQueryFailed(name)
    /\ \E name \in SubQueryNames : ~SubQueryFailed(name)

\* The error markers of a partial success are those of the sub-queries that
\* failed, and a failed distribution query leaves `distributions` empty.
MarkersOfFailures ==
    /\ NewCall.fallback = "record" /\ ~NewCall.raised
    /\ "error" \notin DOMAIN NewCall.result
    /\ \A name \in SubQueryNames :
          ("error_" \o name) \in DOMAIN NewCall.result <=> SubQueryFailed(name)
    /\ SubQueryFailed("distributions")
       => Get(NewCall.result, "distributions") = JList(<<>>)

\* The property `name` was answered with rows.
Answered(name) == ~SubQueryFailed(name) /\ SubQueryRows(name) # <<>>

\* C16 as stated: on a partial success the fallback returns a record that
\* holds, in some field, the value of every property whose query succeeded
\* with bindings, and an error marker for exactly the failed sub-queries.
C16_PartialHoldsEveryValue ==
    [][PartialSuccess
       => /\ MarkersOfFailures
          /\ \A name \in SeqRange(QueryNames) :
                Answered(name)
                => \E k \in DOMAIN NewCall.result :
                      NewCall.result[k] = PropertyValue(name, SubQueryRows(name))
    ]_vars

\* C16, amended: the record holds each such value under the property's
\* name, but the publisher's: the publisher name is held as `publisher`,
\* and the publisher URI as `publisher_uri` only when no publisher name was
\* found; it is dropped when one was.
C16_PartialSuccess ==
    [][PartialSuccess
       => /\ MarkersOfFailures
          /\ \A name \in SeqRange(QueryNames) \ {"publisherName", "publisherUri"} :
                Answered(name)
                => Get(NewCall.result, name) = PropertyValue(name, SubQueryRows(name))
          /\ Answered("publisherName")
             => /\ Get(NewCall.result, "publisher")
                      = PropertyValue("publisherName", SubQueryRows("publisherName"))
                /\ "publisher_uri" \notin DOMAIN NewCall.result
          /\ Answered("publisherUri") /\ ~Answered("publisherName")
             => Get(NewCall.result, "publisher_uri")
                   = PropertyValue("publisherUri", SubQueryRows("publisherUri"))
          /\ {"publisherName", "publisherUri"} \cap DOMAIN NewCall.result = {}
    ]_vars

\* The fallback has returned a record for which the distribution query
\* failed and the property queries were answered: it has the title, the
\* keywords and the publisher's name, the marker of the failed query and no
\* distributions.
C16_Witness ==
    /\ ReturnedRecord /\ LastCall.uri = UriPlain /\ LastCall.fallback = "record"
    /\ LastCall.srv.sparql = "dist_down"
    /\ "error_distributions" \in DOMAIN LastCall.result
    /\ LastCall.result["distributions"] = JList(<<>>)
    /\ LastCall.result["title"] = JStr("Air quality")
    /\ LastCall.result["keywords"] = JList(<<"air", "ozone">>)
    /\ LastCall.result["publisher"] = JStr("EEA")
    /\ "error_title" \notin DOMAIN LastCall.result

\* C17: a record returned by get_dataset_metadata, by either path, fresh or
\* from a cache, has no top-level field other than `distributions` whose
\* value is null or an empty sequence.
C17_NoNullOrEmptyField ==
    ReturnedRecord
    => \A k \in DOMAIN LastCall.result \ {"distributions"} :
          LastCall.result[k] # JNull /\ LastCall.result[k] # JList(<<>>)

\* C18: every record returned by get_dataset_metadata, by the REST path or
\* the SPARQL path, fresh or from a cache, has the key `distributions`, and
\* its value is a sequence (empty for a dataset without distributions).
C18_DistributionsAlwaysPresent ==
    ReturnedRecord
    => /\ "distributions" \in DOMAIN LastCall.result
       /\ LastCall.result["distributions"].t = "list"

\* The lists of distributions in what the last call returned: that of the
\* record of a metadata call, those of the datasets a search found.
DistributionLists ==
    IF calls = <<>> \/ LastCall.raised THEN {}
    ELSE IF LastCall.op = "metadata"
    THEN IF "distributions" \in DOMAIN LastCall.result
         THEN {LastCall.result["distributions"].l} ELSE {}
    ELSE IF LastCall.op = "search"
    THEN {LastCall.result["results"].l[i]["distributions"].l :
             i \in DOMAIN LastCall.result["results"].l}
    ELSE {}

\* C19: in every record returned by the REST path, the SPARQL fallback or
\* search_datasets, each distribution has a `uri`, a `downloadURL` or an
\* `accessURL`, and no two distributions of a dataset have the same `uri`.
C19_DistributionsIdentifiedOnce ==
    \A distributions \in DistributionLists :
        /\ \A i \in DOMAIN distributions :
              \E k \in {"uri", "downloadURL", "accessURL"} :
                 Truthy(Get(distributions[i], k))
        /\ \A i, j \in DOMAIN distributions :
              /\ i # j
              /\ "uri" \in DOMAIN distributions[i] /\ "uri" \in DOMAIN distributions[j]
              => distributions[i]["uri"] # distributions[j]["uri"]

\* The REST path has returned the record of the dataset whose graph holds a
\* distribution twice and one without identifier or URL: the record has
\* the one distribution.
C19_Witness ==
    /\ ReturnedRecord /\ LastCall.uri = UriRest /\ LastCall.source = "rest"
    /\ Len(DistributionNodes(UriRest)) = 3
    /\ Len(LastCall.result["distributions"].l) = 1
    /\ LastCall.result["distributions"].l[1]["uri"] = JStr("http://dist.example/1")

-----------------------------------------------------------------------------
(* Properties of the selection of a distribution.                          *)

\* The distributions of a list that have a download or access URL and
\* match a preferred format, by their place in the list.
Candidates(distributions, preferred) ==
    {i \in DOMAIN distributions :
        TargetUrl(distributions[i]) # "" /\ MatchesFormat(distributions[i], upper(preferred))}

Least(S) == CHOOSE x \in S : \A y \in S : x <= y

\* The earliest preferred format that some distribution matches.
EarliestMatched(distributions, preferred_formats) ==
    Least({k \in DOMAIN preferred_formats :
              Candidates(distributions, preferred_formats[k]) # {}})

\* The preferred formats with their letters made small.
Lowered(preferred_formats) ==
    [k \in DOMAIN preferred_formats |-> lower(preferred_formats[k])]

\* C20: the selection is the first distribution in list order that has a
\* URL and matches token p, p being the earliest preferred token that any
\* such distribution matches; so of a CSV and a JSON distribution the order
\* [CSV, JSON] selects the CSV one and [JSON, CSV] the JSON one, wherever
\* they are in the list; and the letter case of the tokens and of the
\* format makes no difference.
C20_PreferenceOrder ==
    calls # <<>> /\ LastCall.op = "select"
    => LET distributions == LastCall.distributions
           preferred_formats == LastCall.preferred_formats
           sel == LastCall.result
       IN  /\ (\E k \in DOMAIN preferred_formats :
                  Candidates(distributions, preferred_formats[k]) # {})
              => /\ sel.found
                 /\ sel.index
                       = Least(Candidates(distributions,
                             preferred_formats[EarliestMatched(distributions,
                                                               preferred_formats)]))
           /\ /\ \E i \in DOMAIN distributions : distributions[i] = DistCsv
              /\ \E i \in DOMAIN distributions : distributions[i] = DistJson
              => /\ upper(preferred_formats[1]) = "CSV"
                    => sel.found /\ distributions[sel.index] = DistCsv
                 /\ upper(preferred_formats[1]) = "JSON"
                    => sel.found /\ distributions[sel.index] = DistJson
           /\ sel = SelectDistribution(distributions, Lowered(preferred_formats))

\* Of a list that has the JSON distribution before the CSV one, and one
\* without URL before both, the CSV one was selected for [CSV, JSON].
C20_Witness ==
    /\ calls # <<>> /\ LastCall.op = "select"
    /\ LastCall.distributions = <<DistNoUrl, DistJson, DistCsv>>
    /\ LastCall.preferred_formats = <<"CSV", "JSON">>
    /\ LastCall.result.found /\ LastCall.result.index = 3

-----------------------------------------------------------------------------
(* Properties of the last resort of the selection.                         *)

\* The distributions that the metadata call of a content call about to be
\* made gives it.
DistributionsFound(force_refresh) ==
    DistributionsOf(ResolvedMetadata(UriRest, force_refresh))

\* No preferred format of the instance is matched by a distribution, of
\* those that have a URL.
NothingPreferred(distributions) ==
    \A k \in DOMAIN server.preferred :
        Candidates(distributions, server.preferred[k]) = {}

\* The places of the distributions that have a download or access URL.
WithUrl(distributions) ==
    {i \in DOMAIN distributions : TargetUrl(distributions[i]) # ""}

\* The call went for the content at this URL: it requested it, or it
\* returned the entry of the content cache kept for it.
WentFor(log, download_url) ==
    \/ \E i \in DOMAIN log : log[i] = Event("net", "download " \o download_url)
    \/ \E i \in DOMAIN log :
          log[i] = Event("hit", MetaPathOf(ContentCachePath(download_url)))

\* The events of a log that are download requests.
Downloads(log) ==
    {i \in DOMAIN log : log[i].ev = "net" /\ startswith(log[i].what, "download ")}

\* The files of the content cache: contents and their sidecars.
ContentFiles(files) ==
    {p \in DOMAIN files : endswith(p, ".content") \/ endswith(p, ".content.meta")
                             \/ endswith(p, ".content.tmp")
                             \/ endswith(p, ".content.meta.tmp")}

\* C21: when the metadata lists distributions and none of them matches a
\* preferred format, get_dataset_content goes for the first distribution
\* in list order that has a downloadURL or accessURL, and for no other;
\* when no distribution has a URL it returns the error record "No suitable
\* distribution ...", requests no download and writes no file of the content
\* cache.
C21_LastResort ==
    [][IsCallStep /\ NewCall.op = "content"
       /\ DistributionsFound(NewCall.force) # <<>>
       /\ NothingPreferred(DistributionsFound(NewCall.force))
       => LET distributions == DistributionsFound(NewCall.force)
          IN  IF WithUrl(distributions) # {}
              THEN /\ ~NewCall.raised
                   /\ WentFor(NewCall.log,
                              TargetUrl(distributions[Least(WithUrl(distributions))]))
                   /\ Cardinality(Downloads(NewCall.log)) <= 1
                   /\ \A i \in Downloads(NewCall.log) :
                         NewCall.log[i].what
                            = "download "
                                 \o TargetUrl(distributions[Least(WithUrl(distributions))])
              ELSE /\ ~NewCall.raised
                   /\ DOMAIN NewCall.result = {"error"}
                   /\ startswith(NewCall.result["error"].s, "No suitable distribution")
                   /\ Downloads(NewCall.log) = {}
                   /\ ContentFiles(fs') = ContentFiles(fs)
                   /\ \A p \in ContentFiles(fs) : fs'[p] = fs[p]]_vars

\* An instance preferring XML was given a list without any URL and returned
\* the error; told to refresh, it then found the catalogue's CSV file, which
\* matches nothing it prefers, and downloaded it as the last resort.
C21_Witness ==
    /\ Len(calls) = 2
    /\ calls[1].srv.preferred = <<"XML">> /\ calls[1].srv.download = "ok"
    /\ calls[1].source = "no_suitable" /\ ~calls[1].force
    /\ calls[2].force /\ calls[2].source = "download"
    /\ calls[2].result["source_url"] = JStr(DownloadUrl)

-----------------------------------------------------------------------------
(* Properties of the SPARQL client.                                        *)

\* The invocation made its network call.
MadeRequest(c) == \E i \in DOMAIN c.log : c.log[i].ev = "net"

\* C22: _execute_sparql_query never raises to its caller: whatever the
\* network call comes to (no response, a status that is not 2xx, a body that
\* is not JSON, a body that is JSON) it returns a value, and for the first
\* three that value has a non-empty `error` and no bindings.
C22_NeverRaises ==
    calls # <<>> /\ LastCall.op = "query"
    => /\ ~LastCall.raised
       /\ MadeRequest(LastCall)
             /\ LastCall.answer \in {"transport", "http_error", "bad_json"}
          => /\ "error" \in DOMAIN LastCall.resp
             /\ Truthy(LastCall.resp["error"])
             /\ LastCall.resp["results"] = JRows(<<>>)

-----------------------------------------------------------------------------
(* Properties of the public operations.                                    *)

\* C23: no public operation raises an exception to its caller, whatever the
\* state of the cache directory and whatever the endpoints answer: every
\* call returns a record.
C23_NoOperationRaises ==
    calls # <<>> /\ LastCall.op \in {"metadata", "search", "content", "clear"}
    => ~LastCall.raised

-----------------------------------------------------------------------------
(* Properties of the two tiers of the metadata cache.                      *)

\* The file at this path is absent or holds a record that can be read; the
\* lookup removes a file that cannot (lines 540-547 and 593-600).
AbsentOrReadable(files, path) ==
    path \in DOMAIN files => files[path].kind \notin {"garbage", "partial"}

\* The metadata entries that the call stored, by the paths in its log.
MetadataStored(c) ==
    {c.log[i].what : i \in {j \in DOMAIN c.log :
        /\ c.log[j].ev = "store"
        /\ c.log[j].what \in {RestCachePath(c.uri, l) : l \in Locales}
                                \cup {SparqlCachePath(c.uri)}}}

-----------------------------------------------------------------------------
(* Properties of the extraction from the JSON-LD graph.                    *)

\* The publisher of the graph's dataset is a reference, and the node it
\* refers to, if the graph holds it, has this name.
PublisherIsReference ==
    /\ server.dataset_node # JNull
    /\ "dct:publisher" \in DOMAIN server.dataset_node.d
    /\ server.dataset_node.d["dct:publisher"] = JDict([x \in {"@id"} |-> PublisherUri])
HasName(property) ==
    /\ PublisherUri \in DOMAIN server.nodes_by_id
    /\ property \in DOMAIN server.nodes_by_id[PublisherUri].d

\* The name that the record should carry: that of the first of the three
\* properties the publisher's node has, in the requested language where it
\* has one.
NameIn(property, locale) ==
    CASE property = "foaf:name" ->
            IF locale = "fr" THEN "Agence europeenne" ELSE "European Environment Agency"
      [] property = "skos:prefLabel" -> "EEA"
      [] property = "rdfs:label" -> "Environment agency"

\* C25: on the REST path, when the publisher of the dataset is a URI and no
\* name is resolved for it (the graph has no node for the URI, or the node
\* has none of foaf:name, skos:prefLabel, rdfs:label), the record has that
\* URI as `publisher_uri`; when a name is resolved it is the foaf:name, else
\* the skos:prefLabel, else the rdfs:label.
C25_PublisherResolution ==
    calls # <<>> /\ LastCall.op = "publisher" /\ PublisherIsReference
    => IF \E i \in DOMAIN NameProperties : HasName(NameProperties[i])
       THEN Get(LastCall.result, "publisher")
               = JStr(NameIn(NameProperties[Least({i \in DOMAIN NameProperties :
                                                      HasName(NameProperties[i])})],
                             LastCall.locale))
       ELSE Get(LastCall.result, "publisher_uri") = JStr(PublisherUri)

\* An item has a value when it is a plain string or an object with "@value"
\* or "@id"; its value is the string, the "@value", or the "@id" of an
\* object without "@value".
HasValue(item) ==
    \/ item.t = "str"
    \/ item.t = "dict" /\ DOMAIN item.d \cap {"@value", "@id"} # {}
ValueOf(item) ==
    IF item.t = "str" THEN item.s
    ELSE IF "@value" \in DOMAIN item.d THEN item.d["@value"]
    ELSE item.d["@id"]

\* The items of the title of the graph's dataset, none when the node or the
\* property is missing.
TitleItems ==
    IF server.dataset_node = JNull \/ "dct:title" \notin DOMAIN server.dataset_node.d
    THEN <<>>
    ELSE IF server.dataset_node.d["dct:title"].t = "list"
    THEN server.dataset_node.d["dct:title"].l
    ELSE <<server.dataset_node.d["dct:title"]>>

\* The places of the items that have a value, and of those among them whose
\* language is the given one.
Valued(items) == {i \in DOMAIN items : HasValue(items[i])}
ValuedIn(items, language) ==
    {i \in Valued(items) :
        /\ language # ""
        /\ items[i].t = "dict" /\ "@language" \in DOMAIN items[i].d
        /\ items[i].d["@language"] = language}

RECURSIVE ValuesFrom(_, _)
ValuesFrom(items, i) ==
    IF i > Len(items) THEN <<>>
    ELSE (IF HasValue(items[i]) THEN <<ValueOf(items[i])>> ELSE <<>>)
         \o ValuesFrom(items, i + 1)

\* C26: for a single-valued property _get_value returns the value of the
\* first item in the preferred language, otherwise the value of the first
\* item that has a value, otherwise null; for a multi-valued property it
\* returns the values of all the items that have one, in their order, and
\* the empty list when the node or the property is missing.
C26_ValueExtraction ==
    calls # <<>> /\ LastCall.op = "value"
    => IF LastCall.allow_list
       THEN LastCall.result = JList(ValuesFrom(TitleItems, 1))
       ELSE LastCall.result
               = (IF ValuedIn(TitleItems, LastCall.prefer_locale) # {}
                  THEN JStr(ValueOf(TitleItems[Least(ValuedIn(TitleItems,
                                                              LastCall.prefer_locale))]))
                  ELSE IF Valued(TitleItems) # {}
                  THEN JStr(ValueOf(TitleItems[Least(Valued(TitleItems))]))
                  ELSE JNull)

-----------------------------------------------------------------------------
(* Properties of the matching of formats.                                  *)

\* The last call selected for get_dataset_content / for search_datasets,
\* with one preferred format, given in capitals.
SelectedFor(fmt_pref) ==
    calls # <<>> /\ LastCall.op = "select" /\ LastCall.preferred_formats = <<fmt_pref>>
BestFor(fmt_pref) ==
    calls # <<>> /\ LastCall.op = "best" /\ LastCall.preferred_formats = <<fmt_pref>>

\* The format or its label spells CSV out as "comma-separated", in any case
\* of the letters.
CommaSeparated(dist) ==
    \/ Contains(lower(StrOf(Get(dist, "format"))), "comma-separated")
    \/ Contains(lower(StrOf(Get(dist, "format_label"))), "comma-separated")

\* C27: in get_dataset_content a distribution with a URL whose format or
\* format_label contains "comma-separated", in any letter case, matches the
\* preferred token CSV: with CSV the one preferred format, the distribution
\* selected is the first that has a URL and matches CSV in some way or is
\* comma-separated.
C27_CsvSynonym ==
    /\ SelectedFor("CSV")
    /\ \E i \in WithUrl(LastCall.distributions) :
          CommaSeparated(LastCall.distributions[i])
    => /\ LastCall.result.found
       /\ LastCall.result.index
             = Least({i \in WithUrl(LastCall.distributions) :
                         \/ MatchesFormat(LastCall.distributions[i], "CSV")
                         \/ CommaSeparated(LastCall.distributions[i])})

\* The URL has the query parameter format=<token>.
FormatParameter(dist, token) ==
    \/ Contains(lower(TargetUrl(dist)), "?format=" \o lower(token))
    \/ Contains(lower(TargetUrl(dist)), "&format=" \o lower(token))

\* C28: in get_dataset_content a distribution whose URL carries the query
\* parameter format=<token> matches that preferred token: with CSV the one
\* preferred format, the distribution selected is the first that has a URL
\* and matches CSV in some way or has format=csv in the query of its URL.
C28_FormatParameter ==
    /\ SelectedFor("CSV")
    /\ \E i \in WithUrl(LastCall.distributions) :
          FormatParameter(LastCall.distributions[i], "CSV")
    => /\ LastCall.result.found
       /\ LastCall.result.index
             = Least({i \in WithUrl(LastCall.distributions) :
                         \/ MatchesFormat(LastCall.distributions[i], "CSV")
                         \/ FormatParameter(LastCall.distributions[i], "CSV")})

\* The media type has the token as the segment after its slash.
MediaSegment(dist, token) ==
    /\ Contains(StrOf(Get(dist, "mediaType")), "/")
    /\ upper(LastPart(StrOf(Get(dist, "mediaType")), "/")) = upper(token)

\* C29: in get_dataset_content and in search_datasets a distribution with a
\* URL whose mediaType has the preferred token after the slash matches that
\* token, whatever the token: with RDF the one preferred format, the
\* distribution selected is the first that has a URL and matches RDF in some
\* way or has the media type <something>/rdf.
C29_MediaTypeSegment ==
    /\ (/\ SelectedFor("RDF")
        /\ \E i \in WithUrl(LastCall.distributions) :
              MediaSegment(LastCall.distributions[i], "RDF")
        => /\ LastCall.result.found
           /\ LastCall.result.index
                 = Least({i \in WithUrl(LastCall.distributions) :
                             \/ MatchesFormat(LastCall.distributions[i], "RDF")
                             \/ MediaSegment(LastCall.distributions[i], "RDF")}))
    /\ (/\ BestFor("RDF")
        /\ \E i \in WithUrl(LastCall.distributions) :
              MediaSegment(LastCall.distributions[i], "RDF")
        => /\ LastCall.result # JNull
           /\ LastCall.result.d["url"]
                 = JStr(TargetUrl(LastCall.distributions[
                       Least({i \in WithUrl(LastCall.distributions) :
                                 \/ SearchMatchesFormat(LastCall.distributions[i], "RDF")
                                 \/ MediaSegment(LastCall.distributions[i], "RDF")})])))

\* The URL a selection comes to, "" when it selects nothing.
UrlSelected(c) ==
    IF c.op = "select"
    THEN IF c.result.found THEN TargetUrl(c.distributions[c.result.index]) ELSE ""
    ELSE IF c.result # JNull THEN c.result.d["url"].s ELSE ""

\* C30: for the same list of distributions, none with a format_label, and
\* the same preferred formats, the download url that search_datasets
\* attaches to the dataset is the URL that get_dataset_content selects.
C30_SelectorsAgree ==
    \A i, j \in DOMAIN calls :
        /\ calls[i].op = "select" /\ calls[j].op = "best"
        /\ calls[i].preferred_formats = calls[j].preferred_formats
        /\ calls[i].distributions = calls[j].distributions
        /\ \A k \in DOMAIN calls[i].distributions :
              "format_label" \notin DOMAIN calls[i].distributions[k]
        => UrlSelected(calls[i]) = UrlSelected(calls[j])

-----------------------------------------------------------------------------
(* Properties of the delay between requests.                               *)

\* The start times of the requests of all calls so far, in order.
RECURSIVE AllStarts(_)
AllStarts(n) == IF n = 0 THEN <<>> ELSE AllStarts(n - 1) \o calls[n].starts

\* C31: on one instance the start times of any two consecutive outbound
\* requests (SPARQL query, REST fetch, download; of one call or of two) are
\* at least REQUEST_DELAY apart, every request of a call being one start
\* time; and a call that makes no request returns at the time it was made
\* and leaves the last-request time as it was.
C31_RateLimit ==
    /\ \A i \in 1..(Len(AllStarts(Len(calls))) - 1) :
          AllStarts(Len(calls))[i + 1] - AllStarts(Len(calls))[i] >= REQUEST_DELAY
    /\ \A n \in DOMAIN calls :
          /\ Len(calls[n].starts) = Cardinality(NetEvents(calls[n].log))
          /\ calls[n].starts = <<>>
                => /\ calls[n].returned = calls[n].at
                   /\ calls[n].last_after = calls[n].last_before

\* A call served from the cache follows a call that made a request for
\* the REST record and slept before its download, and a later call sleeps
\* before its first request.
C31_Witness ==
    /\ Len(calls) = 2
    /\ Len(calls[1].starts) = 2
    /\ calls[1].starts[2] > calls[1].starts[1]
    /\ calls[1].starts[2] = calls[1].last_after
    /\ \/ calls[2].starts = <<>> /\ calls[2].op = "content"
       \/ /\ calls[2].starts # <<>>
          /\ calls[2].starts[1] > calls[2].at

-----------------------------------------------------------------------------
(* Properties of the cache after failed requests.                          *)

\* The outcomes of a request for which the client has no response to use.
FailedAnswers == {"transport", "http_error", "bad_json"}

\* The call made a query that failed / a download that failed.
QueryFailed(c) ==
    c.op = "query" /\ MadeRequest(c) /\ c.answer \in FailedAnswers
DownloadFailed(c) ==
    c.op = "content" /\ c.source = "download_failed"

\* The call stored (wrote or replaced) the file at the path.
Stored(c, path) == HasEvent(c.log, "store", path)

\* C32: a failed network result is not cached where it failed.
\* _execute_sparql_query stores its cache file only after a request whose
\* response passed the status check and parsed as JSON, and
\* get_dataset_content stores content and sidecar only after a download that
\* succeeded; a call whose query or download failed stores neither, and
\* leaves the files of the key (when they were not unreadable, in which
\* case the lookup had removed them) and the temporary files as they were;
\* and the next call of the same kind makes the request again, unless the
\* failed call was told to refresh and the next one is not.
C32_FailureNotCached ==
    [][IsCallStep =>
        /\ NewCall.op = "query" /\ Stored(NewCall, TitleCachePath)
              => MadeRequest(NewCall) /\ NewCall.answer = "ok"
        /\ NewCall.op = "content"
              /\ (Stored(NewCall, ContentPath) \/ Stored(NewCall, SidecarPath))
              => /\ HasEvent(NewCall.log, "net", "download " \o DownloadUrl)
                 /\ server.download = "ok"
        /\ QueryFailed(NewCall)
              => /\ ~Stored(NewCall, TitleCachePath)
                 /\ Unchanged(TempFile(TitleCachePath))
                 /\ AbsentOrReadable(fs, TitleCachePath) => Unchanged(TitleCachePath)
        /\ DownloadFailed(NewCall)
              => /\ ~Stored(NewCall, ContentPath) /\ ~Stored(NewCall, SidecarPath)
                 /\ Unchanged(TempFile(ContentPath)) /\ Unchanged(TempFile(SidecarPath))
                 /\ AbsentOrReadable(fs, SidecarPath)
                       => Unchanged(ContentPath) /\ Unchanged(SidecarPath)
        /\ calls # <<>> /\ QueryFailed(LastCall) /\ NewCall.op = "query"
              /\ (LastCall.force => NewCall.force)
              => MadeRequest(NewCall)
        /\ calls # <<>> /\ DownloadFailed(LastCall) /\ NewCall.op = "content"
              /\ (LastCall.force => NewCall.force)
              /\ WentFor(NewCall.log, DownloadUrl)
              => HasEvent(NewCall.log, "net", "download " \o DownloadUrl)
    ]_vars

\* The statement without its two conditions: after a failed query or
\* download the files of the key are as they were before the call, and the
\* next call of the same kind makes the request again.
C32_FilesAsBefore ==
    [][IsCallStep =>
        /\ QueryFailed(NewCall) => Unchanged(TitleCachePath)
        /\ DownloadFailed(NewCall) => Unchanged(ContentPath) /\ Unchanged(SidecarPath)
        /\ calls # <<>> /\ QueryFailed(LastCall) /\ NewCall.op = "query"
              => MadeRequest(NewCall)
        /\ calls # <<>> /\ DownloadFailed(LastCall) /\ NewCall.op = "content"
              /\ WentFor(NewCall.log, DownloadUrl)
              => HasEvent(NewCall.log, "net", "download " \o DownloadUrl)
    ]_vars

\* A download failed, the call being told to refresh, over an entry of the
\* content cache that was in place.
C32_Witness ==
    /\ Len(calls) = 2
    /\ DownloadFailed(calls[2])
    /\ ContentPath \in DOMAIN fs /\ SidecarPath \in DOMAIN fs
    /\ fs[SidecarPath].kind = "object"

-----------------------------------------------------------------------------
(* Properties of the forced refresh.                                       *)

\* The call before the last was made with force_refresh and returned a
\* record without error; the last is for the same URI and locale, without
\* force_refresh, within the TTL, the endpoints answering as before.
AfterForcedRefresh(i) ==
    /\ i >= 1
    /\ calls[i].force /\ ~calls[i].raised /\ "error" \notin DOMAIN calls[i].result
    /\ ~calls[i + 1].force
    /\ calls[i + 1].uri = calls[i].uri /\ calls[i + 1].locale = calls[i].locale
    /\ calls[i + 1].at - calls[i].at < CacheTTL
    /\ calls[i + 1].srv = calls[i].srv

\* C33: after a get_dataset_metadata call with force_refresh=True returned a
\* successful record R, by either path, the next call for the same URI and
\* locale without force_refresh, within the TTL and with the endpoints
\* answering as before, returns R.
C33_ForcedRefreshReplaces ==
    AfterForcedRefresh(Len(calls) - 1)
        => /\ ~calls[Len(calls)].raised
           /\ calls[Len(calls)].result = calls[Len(calls) - 1].result

-----------------------------------------------------------------------------
(* Properties of the cache keys.                                           *)

\* C34: cache entries are not shared between different requests: two
\* different dataset URIs, and two different download URLs, never map to the
\* same cache file, so that a hit returns only what was stored for the same
\* URI.
C34_KeysDistinct ==
    calls # <<>> /\ LastCall.op = "keys" /\ LastCall.a # LastCall.b
        => LastCall.files_a \cap LastCall.files_b = {}

-----------------------------------------------------------------------------
(* Properties of the two files of a content entry.                         *)

\* Both files of the entry are in place at their paths, each written whole.
EntryInPlace ==
    /\ ContentPath \in DOMAIN fs /\ fs[ContentPath].kind = "content"
    /\ SidecarPath \in DOMAIN fs /\ fs[SidecarPath].kind = "object"

\* The sidecar is the one written for the download of the data in version
\* ver, and the content file holds what that download brought.
EntryOfVersion(ver) ==
    /\ fs[ContentPath] = ContentFile(ContentBody(ver))
    /\ Get(fs[SidecarPath].data, "size") = JNum(Len(ContentBody(ver)))
    /\ Get(fs[SidecarPath].data, "is_binary") = JBool(FALSE)
    /\ Get(fs[SidecarPath].data, "dataset_modified")
          = Get(CleanTopLevel(RestGraphMetadata(UriRest, "en", ver)), "modified")

\* C35: in every reachable state in which the content file and its sidecar
\* both exist at their paths, also after a crash or a failed write between
\* the two renames of a store, the sidecar's is_binary, size and
\* dataset_modified describe the content file that is present.
C35_SidecarDescribesContent ==
    EntryInPlace => \E ver \in Versions : EntryOfVersion(ver)

-----------------------------------------------------------------------------
(* Properties of the round trip through the content cache.                 *)

\* The last call was served from the content cache, and the call before it
\* downloaded the content and wrote the entry.
ServedFromEntry ==
    /\ Len(calls) >= 2
    /\ LastCall.op = "content" /\ LastCall.source = "content_cache"
    /\ calls[Len(calls) - 1].op = "content"
    /\ calls[Len(calls) - 1].source = "download"

\* C36: a get_dataset_content call served from the cache returns the same
\* content, format, content_type, is_binary, size and source_url as the
\* download call that wrote the entry, for text (also with "\r\n" in it)
\* and for binary content, and its size is the length of its content.
C36_RoundTrip ==
    ServedFromEntry
        => /\ LastCall.result = calls[Len(calls) - 1].result
           /\ LastCall.result["size"] = JNum(Len(LastCall.result["content"].s))

-----------------------------------------------------------------------------
(* Properties of an instance with its cache disabled.                      *)

\* C37: with cache_enabled=False no operation creates, reads, replaces or
\* deletes a file of the cache directory: the directory is after every call
\* as it was before, the log of the call holds requests and nothing else,
\* every search, metadata and content call makes a request, and clear_cache,
\* with or without a URI, does nothing at all.
C37_DisabledTouchesNothing ==
    [][IsCallStep /\ ~cache_enabled =>
        /\ fs' = fs
        /\ \A i \in DOMAIN NewCall.log : NewCall.log[i].ev = "net"
        /\ NewCall.op \in {"search", "metadata", "content"} => MadeRequest(NewCall)
        /\ NewCall.op = "clear" => NewCall.log = <<>> /\ ~NewCall.raised
    ]_vars

\* The cache disabled over a directory that holds young entries of the
\* dataset, clear_cache called for it and its content then asked for.
C37_Witness ==
    /\ ~cache_enabled
    /\ Len(calls) = 2
    /\ calls[1].op = "clear" /\ calls[1].uri = UriRest
    /\ calls[2].op = "content" /\ ~calls[2].force
    /\ FreshEntry(fs, RestCachePath(UriRest, "en"), now)
    /\ FreshEntry(fs, SidecarPath, now)

-----------------------------------------------------------------------------
(* Properties of two stores of one key with interleaved steps.             *)

\* C38: when two resolutions store the same cache key with interleaved
\* steps, the file at the canonical path, whenever there is one, is the
\* complete entry that one of them set out to write.  (No store raises to
\* its caller: a failed os.replace is caught, see RaceReplace.)
C38_CanonicalAlwaysWhole ==
    RacePath \in DOMAIN fs => fs[RacePath] \in wr.payloads

-----------------------------------------------------------------------------
(* Properties of BraveSearchTool.forward.                                  *)

\* The answer the call got has no "results" under "web".
WithoutWebResults(body) ==
    "web" \notin DOMAIN body \/ "results" \notin DOMAIN body["web"].d

====
